---- MODULE Spec2Model ----
(***************************************************************************)
(* Model of the immigration-monitor pipeline: the SQLite dedup store       *)
(* (database.py), the Telegram dispatcher's rate limit                     *)
(* (outputs/telegram_bot.py) and the orchestrator's per-source pass        *)
(* (main.py, process_source / run_once / run_forever).                     *)
(*                                                                         *)
(* Time is counted in ticks; TicksPerHour ticks make one hour.  A          *)
(* timestamp string is modelled by the triple <<date, separator, time of   *)
(* day>>, compared lexicographically like SQLite compares TEXT values.     *)
(*                                                                         *)
(* The scheduling loop of run_forever and the life cycle of main are       *)
(* modelled on the event loop's clock, in seconds, with a pass seen as a   *)
(* sequence of item iterations.  The classifiers (classifiers/*.py) are    *)
(* modelled as operators on texts, which are sequences of characters.      *)
(***************************************************************************)
EXTENDS Integers, Sequences, FiniteSets, TLC

VARIABLES
    now,               \* wall clock (UTC), in ticks
    rssDated,          \* whether the RSS feed supplies published_parsed for its entry
    processed_items,   \* table processed_items: a set of rows
    notification_log,  \* table notification_log: a sequence of rows (AUTOINCREMENT order)
    mode,              \* per process: "stopped" | "once" | "forever"
    srcIdx,            \* per process: position in self.sources during run_once
    pc,                \* per process: position inside process_source
    items,             \* per process: the list returned by source.fetch
    idx,               \* per process: position of the for loop over items
    result,            \* per process: ClassificationResult of the current item
    outIdx,            \* per process: position of the for loop over self.outputs
    lastOp,            \* history: the last operation and its outcome
    sentLife,          \* history: per id, send() calls that returned True since its row was inserted
    sentTotal,         \* history: per id, send() calls that returned True, ever
    flipsLife,         \* history: per id, notified 0 -> 1 transitions since its row was inserted
    flipsTotal,        \* history: per id, notified 0 -> 1 transitions, ever
    undelivered,       \* history: ids whose dispatch ended without a send, row still kept
    undeliveredEver,   \* history: ids whose dispatch ever ended without a send
    loopPc,            \* main: position in main / run_once / run_forever
    runMode,           \* main: "once" (--once) or "forever"
    running,           \* main: self._running
    loopNow,           \* main: asyncio.get_event_loop().time(), in seconds
    tickNow,           \* run_forever: the local "now" read at the top of the while loop
    last_run,          \* run_forever: the local dict last_run
    srcPos,            \* run_once / run_forever: position of "for source in self.sources"
    itemsLeft,         \* process_source: iterations of "for item in items" still to do
    connected,         \* sources holding an open connection
    dbOpen,            \* whether the sqlite connection is open
    escaped,           \* the exception that left run_once / run_forever, or "none"
    cyc,               \* history: what the current cycle has done
    sig,               \* history: the shutdown signal and what was done after it
    call,              \* classifier: the last call of Classifier.classify and its outcome
    fn,                \* classifier: the last call of one of its text functions
    rss,               \* RedditSource / ForumSource: a call of fetch and what it has done
    tg,                \* TelegramSource: a call of fetch and what it has done
    tgOut,             \* TelegramOutput: a call of send, two calls of _format_message
    window,            \* run_once / run_forever: the lookback computed for RedditSource
    trail              \* history: the classify call that raised last, whether a purge has deleted

store == <<processed_items, notification_log>>
pass == <<pc, items, idx, result, outIdx>>
hist == <<sentLife, sentTotal, flipsLife, flipsTotal, undelivered, undeliveredEver>>
loopv == <<loopPc, runMode, running, loopNow, tickNow, last_run, srcPos, itemsLeft,
           connected, dbOpen, escaped, cyc, sig>>
more == <<tgOut, window, trail>>
units == <<fn, rss, tg, more>>
ext == <<loopv, call, units>>
\* ext without the history in trail
rest == <<loopv, call, fn, rss, tg, tgOut, window>>
pipeline == <<now, rssDated, processed_items, notification_log, mode, srcIdx, pc,
              items, idx, result, outIdx, lastOp, sentLife, sentTotal, flipsLife,
              flipsTotal, undelivered, undeliveredEver>>
vars == <<now, rssDated, processed_items, notification_log, mode, srcIdx, pc,
          items, idx, result, outIdx, lastOp, sentLife, sentTotal, flipsLife,
          flipsTotal, undelivered, undeliveredEver, loopPc, runMode, running,
          loopNow, tickNow, last_run, srcPos, itemsLeft, connected, dbOpen,
          escaped, cyc, sig, call, fn, rss, tg, tgOut, window, trail>>

-----------------------------------------------------------------------------
(* Bounds of the model *)

TicksPerHour == 2      \* clock resolution
Horizon == 3           \* ticks the clock may advance before the long idle time
NumOutputs == 2        \* length of self.outputs
MaxPerHour == 1        \* max_per_hour of every output
MaxLog == 2            \* cap on notification_log rows in the store-level specification
MaxItems == 2          \* iterations of the item loop in a pass of the scheduling model
ExtraTicks == 2        \* scheduling ticks beyond two Telegram intervals
MaxTextLen == 3        \* length of the texts handed to the classifier
MaxMinMatches == 2     \* largest configured classification.en.min_keyword_matches
MaxPieces == 3         \* pieces a text handed to one text function is put together from
MaxEntries == 2        \* entries of one RSS feed
MaxIntervalMinutes == 60   \* largest check_interval_minutes tried
MaxMessages == 2       \* messages iter_messages yields for one group or channel

(* Program constants *)

CleanupDays == 30          \* run_once: cleanup_old_records(days=30)
MinTextLength == 30        \* notifications.min_text_length default
PreviewLen == 500          \* text_preview[:500]
CheckIntervalMinutes == 15 \* reddit.check_interval_minutes default
TelegramLookbackHours == 2 \* telegram.lookback_hours default
SepSpace == 32             \* ord(' '): CURRENT_TIMESTAMP gives 'YYYY-MM-DD HH:MM:SS'
SepT == 84                 \* ord('T'): datetime.isoformat gives 'YYYY-MM-DDTHH:MM:SS.ffffff'
TelegramIntervalMinutes == 30  \* telegram.check_interval_minutes default
SleepSeconds == 60         \* run_forever: await asyncio.sleep(60)
EntitySleep == 1           \* TelegramSource.fetch: await asyncio.sleep(1)
FloodExtra == 1            \* TelegramSource.fetch: await asyncio.sleep(e.seconds + 1)

Hour == TicksPerHour
Day == 24 * Hour
StartTime == (CleanupDays + 2) * Day - Hour     \* 23:00 UTC of some day
IdleJump == (CleanupDays + 1) * Day             \* a long time during which no process runs

Procs == {1, 2}
NoItem == "none"
\* the classification column: NULL, or the JSON text of one classification
Null == <<>>
Json(res) == <<res>>

Min(a, b) == IF a < b THEN a ELSE b
Max(a, b) == IF a > b THEN a ELSE b

-----------------------------------------------------------------------------
(* Items the sources can deliver: MonitorItem *)

ItemIds == {"reddit_post_r1", "tg_1_t1", "tg_2_c1"}

ItemSource(i) ==
    CASE i = "reddit_post_r1" -> "reddit_post"
      [] i = "tg_1_t1" -> "telegram"
      [] OTHER -> "telegram_channel"

ItemChannel(i) ==
    CASE i = "reddit_post_r1" -> "r/immigration"
      [] i = "tg_1_t1" -> "group"
      [] OTHER -> "channel"

\* len(item.text)
ItemTextLen(i) ==
    CASE i = "reddit_post_r1" -> 40
      [] i = "tg_1_t1" -> 10
      [] OTHER -> 600

ItemUrl(i) == <<"url", i>>

\* creation time in the origin system
ItemCreated(i) == StartTime

SourceNames == <<"RedditSource", "TelegramSource">>

\* the origin's order: Telegram groups are fetched before channels
Feed(src) ==
    IF src = "RedditSource" THEN <<"reddit_post_r1">> ELSE <<"tg_1_t1", "tg_2_c1">>

-----------------------------------------------------------------------------
(* Timestamps *)

FormatSqlite(t) == <<t \div Day, SepSpace, t % Day>>
FormatIso(t) == <<t \div Day, SepT, t % Day>>
ParseTime(s) == s[1] * Day + s[3]

\* TEXT comparison (BINARY collation)
StrLess(a, b) ==
    \/ a[1] < b[1]
    \/ a[1] = b[1] /\ a[2] < b[2]
    \/ a[1] = b[1] /\ a[2] = b[2] /\ a[3] < b[3]

-----------------------------------------------------------------------------
(* Database *)

IsProcessedByUrl(rows, id) == \E r \in rows : r.url = id

IsProcessedNotifiedOnly(rows, id) == \E r \in rows : r.id = id /\ r.notified

\* SELECT 1 FROM processed_items WHERE id = ?
IsProcessed(rows, id) == \E r \in rows : r.id = id

\* a row of processed_items as INSERT builds it (processed_at and notified by DEFAULT)
NewRow(id, source, group_name, textLen, url, classification, t) ==
    [id |-> id, source |-> source, group_name |-> group_name,
     text_preview |-> Min(textLen, PreviewLen), url |-> url,
     classification |-> classification,
     processed_at |-> FormatSqlite(t), notified |-> FALSE]

InsertOrReplace(rows, id, source, group_name, textLen, url, classification, t) ==
    {r \in rows : r.id # id} \cup
        {NewRow(id, source, group_name, textLen, url, classification, t)}

\* INSERT OR IGNORE INTO processed_items
MarkProcessed(rows, id, source, group_name, textLen, url, classification, t) ==
    IF \E r \in rows : r.id = id
    THEN rows
    ELSE rows \cup {NewRow(id, source, group_name, textLen, url, classification, t)}

MarkNotifiedRowsKeep(rows, id) == rows

\* UPDATE processed_items SET notified = 1 WHERE id = ?
MarkNotifiedRows(rows, id) ==
    {IF r.id = id THEN [r EXCEPT !.notified = TRUE] ELSE r : r \in rows}

\* INSERT INTO notification_log (item_id) VALUES (?)
MarkNotifiedLog(log, id, t) ==
    Append(log, [item_id |-> id, sent_at |-> FormatSqlite(t)])

CountAllRows(log, t) == Len(log)

\* SELECT COUNT(*) FROM notification_log WHERE sent_at > hour_ago.isoformat()
GetNotificationsCountLastHour(log, t) ==
    Cardinality({k \in DOMAIN log : StrLess(FormatIso(t - Hour), log[k].sent_at)})

\* DELETE FROM processed_items WHERE processed_at < cutoff.isoformat()
CleanupRows(rows, t, days) ==
    {r \in rows : ~StrLess(r.processed_at, FormatIso(t - days * Day))}

\* DELETE FROM notification_log WHERE sent_at < cutoff.isoformat()
CleanupLog(log, t, days) ==
    LET Keep(e) == ~StrLess(e.sent_at, FormatIso(t - days * Day))
    IN  SelectSeq(log, Keep)

-----------------------------------------------------------------------------
(* Source adapters: fetch(lookback_hours) *)

\* run_once: lookback = minutes * 4; lookback_hours = max(lookback / 60, 1);
\* process_source(source, int(lookback_hours)). The division is a float division and
\* int() truncates
OnceLookbackHours(check_interval_minutes) ==
    Max((check_interval_minutes * 4) \div 60, 1)

\* run_forever: lookback_hours = max(minutes * 4 / 60, 1);
\* process_source(source, int(lookback_hours))
ForeverLookbackHours(check_interval_minutes) ==
    Max((check_interval_minutes * 4) \div 60, 1)

\* run_once / run_forever: int(max(check_interval_minutes * 4 / 60, 1)), lookback_hours
LookbackHours(src) ==
    IF src = "RedditSource"
    THEN OnceLookbackHours(CheckIntervalMinutes)
    ELSE TelegramLookbackHours

\* created_at as the adapter assigns it: an RSS entry without published_parsed gets now
AssignedCreated(src, i, t) ==
    IF src = "RedditSource" /\ ~rssDated THEN t ELSE ItemCreated(i)

\* the adapter's age filter: "if created < cutoff: continue / break"
PassesCutoff(src, i, t) ==
    ~(AssignedCreated(src, i, t) < t - LookbackHours(src) * Hour)

\* the lists fetch can return at time t: the origin may hold any part of the feed
FetchLists(src, t) ==
    {SelectSeq(Feed(src), LAMBDA i : i \in S) :
        S \in SUBSET {i \in ItemIds : \E k \in DOMAIN Feed(src) :
                          Feed(src)[k] = i /\ PassesCutoff(src, i, t)}}

-----------------------------------------------------------------------------
(* Classifier and dispatcher, as process_source sees them *)

\* ClassificationResult: the two fields process_source branches on
Results == [is_relevant : BOOLEAN, is_question : BOOLEAN]

IsActionableNoChannel(res, source) == res.is_relevant /\ res.is_question

\* result.is_relevant and (result.is_question or item.source == "telegram_channel")
IsActionable(res, source) ==
    res.is_relevant /\ (res.is_question \/ source = "telegram_channel")

\* TelegramOutput.send: count >= self.max_per_hour
RateLimited(log, t, maxPerHour) ==
    GetNotificationsCountLastHour(log, t) >= maxPerHour

\* outcomes of the transport part of TelegramOutput.send
SendOutcomes == {"sent", "sent_plain", "failed", "raised"}

\* notification_log rows whose send time lies in (t - 1 hour, t]
TrueCountLastHour(log, t) ==
    Cardinality({k \in DOMAIN log : ParseTime(log[k].sent_at) > t - Hour})

NoResult == "no_result"

\* the record of the last operation; the fields an operation does not set stay at these values
Op(op, p, id) ==
    [op |-> op, proc |-> p, id |-> id, existed |-> FALSE, ret |-> "none",
     raised |-> "none", trueCount |-> 0, out |-> 0, cls |-> Null]

\* an operation no property looks at
Quiet == Op("quiet", 0, NoItem)

-----------------------------------------------------------------------------
(* Texts: sequences over a small alphabet with word characters in both cases, *)
(* a space and a punctuation character                                        *)

Chars == {"i", "c", "e", "I", " ", "?"}

Texts == UNION {[1..n -> Chars] : n \in 0..MaxTextLen}

\* str.lower()
LowerChar(c) == IF c = "I" THEN "i" ELSE c

Lower(s) == [k \in DOMAIN s |-> LowerChar(s[k])]

\* the regex classes \w and \s
IsWordChar(c) == c \in {"i", "c", "e", "I", "t", "p", "s", "h", "1", "b", "_"}

IsSpace(c) == c = " "

\* BaseClassifier._clean_text: re.sub(r'[^\w\s]', ' ', text.lower())
CleanText(s) ==
    [k \in DOMAIN s |->
        IF IsWordChar(LowerChar(s[k])) \/ IsSpace(LowerChar(s[k]))
        THEN LowerChar(s[k]) ELSE " "]

\* kw occurs in s from position k on
OccursAt(kw, s, k) ==
    /\ k + Len(kw) - 1 <= Len(s)
    /\ \A j \in 1..Len(kw) : s[k + j - 1] = kw[j]

\* the operator "kw in s"
Contains(kw, s) == \E k \in 1..(Len(s) + 1) : OccursAt(kw, s, k)

\* the regex assertion \b between s[k-1] and s[k]
Boundary(s, k) ==
    (k - 1 \in DOMAIN s /\ IsWordChar(s[k - 1])) # (k \in DOMAIN s /\ IsWordChar(s[k]))

\* bool(re.search(r'\b' + re.escape(kw) + r'\b', s))
WordSearch(kw, s) ==
    \E k \in 1..(Len(s) + 1) :
        OccursAt(kw, s, k) /\ Boundary(s, k) /\ Boundary(s, k + Len(kw))

WordMatchSubstring(keyword, cleaned_text) == Contains(keyword, cleaned_text)

\* BaseClassifier._word_match
WordMatch(keyword, cleaned_text) == WordSearch(keyword, cleaned_text)

Ice == <<"i", "c", "e">>

Tps == <<"t", "p", "s">>
H1b == <<"h", "1", "b">>
Eb1 == <<"e", "b", "1">>

\* en.py WHOLE_WORD_KEYWORDS
WHOLE_WORD_KEYWORDS ==
    {Ice, <<"e", "a", "d">>, Tps, <<"c", "b", "p">>, <<"i", "-", "9", "4">>, Eb1,
     <<"e", "b", "2">>, <<"o", "1">>, <<"o", "-", "1">>, <<"d", "a", "c", "a">>,
     <<"n", "i", "w">>}

\* texts put together from words, single characters and separators: they hold two
\* markers in either order, a marker inside a longer word, and an underscore
Pieces == {Ice, Tps, H1b, <<"s">>, <<"I">>, <<" ">>, <<"_">>, <<"?">>}

RECURSIVE Flatten(_)
Flatten(ps) == IF ps = <<>> THEN <<>> ELSE Head(ps) \o Flatten(Tail(ps))

PieceTexts == {Flatten(ps) : ps \in UNION {[1..n -> Pieces] : n \in 0..MaxPieces}}

KeywordMatchSubstring(keyword, text_lower) == Contains(keyword, text_lower)

\* EnglishClassifier._keyword_match
KeywordMatch(keyword, text_lower) ==
    IF keyword \in WHOLE_WORD_KEYWORDS
    THEN WordSearch(keyword, text_lower)
    ELSE Contains(keyword, text_lower)

-----------------------------------------------------------------------------
(* Classifier configuration *)

NoKey == "None"
PlaceholderKey == "YOUR_ANTHROPIC_API_KEY"
ApiKeys == {NoKey, PlaceholderKey, "sk-key"}

\* classification.en.keywords: empty; or an allowlisted keyword, a one-letter keyword
\* and two entries that are equal once lowercased
EnKeywordLists == {<<>>, <<Ice, <<"c">>, <<"I">>, <<"i">>>>}

Configs ==
    [en_keywords : EnKeywordLists,
     min_keyword_matches : 0..MaxMinMatches,
     anthropic_api_key : ApiKeys]

\* the other lists of the configuration
EnQuestionMarkers == <<<<"?">>>>
RuKeywords == <<Ice>>
UkKeywords == <<<<"c", "i">>>>
RuQuestionMarkers == <<<<"?">>>>
UkQuestionMarkers == <<<<"e", " ">>>>

\* item.language as the adapters set it (reddit: "en"; telegram: the configured value)
Langs == {"en", "ru", "uk", "ru/uk", "uk/ru", "RU"}

\* [x.lower() for x in xs]
LowerAll(xs) == [k \in DOMAIN xs |-> Lower(xs[k])]

\* [self._clean_text(x) for x in xs]
CleanAll(xs) == [k \in DOMAIN xs |-> CleanText(xs[k])]

\* sum(1 for kw in keywords if self._keyword_match(kw, text_lower))
CountKeywordMatch(keywords, text_lower) ==
    Cardinality({k \in DOMAIN keywords : KeywordMatch(keywords[k], text_lower)})

\* sum(1 for kw in keywords if self._word_match(kw, cleaned))
CountWordMatch(keywords, cleaned) ==
    Cardinality({k \in DOMAIN keywords : WordMatch(keywords[k], cleaned)})

\* any(m in text_lower for m in markers)
AnyContained(markers, text_lower) ==
    \E k \in DOMAIN markers : Contains(markers[k], text_lower)

-----------------------------------------------------------------------------
(* ClassificationResult and the verification call *)

\* confidence in tenths: min(keyword_matches * 0.2, 1.0)
KeywordConfidence(n) == Min(n * 2, 10)

KeywordResult(is_relevant, is_question, category, n) ==
    [is_relevant |-> is_relevant, is_question |-> is_question, category |-> category,
     urgency |-> "medium", confidence |-> KeywordConfidence(n), method |-> "keywords"]

\* values of a field of the response object: the key is absent, or its value is null
\* (None after json.loads)
Missing == "missing"
JsonNull == "None"

\* what the environment does with a verification call: the client cannot be created,
\* the request fails, the response is no JSON, or the response is a classification
AiOutcomes ==
    {[kind |-> k, is_relevant |-> FALSE, is_question |-> FALSE, category |-> "visa",
      urgency |-> "high"] : k \in {"no_client", "api_error", "bad_json"}}
    \cup [kind : {"ok"}, is_relevant : BOOLEAN, is_question : BOOLEAN,
          category : {"visa"}, urgency : {"high"}]

\* "category" of a response object: a value of the enumeration, absent, null, a string
\* outside the enumeration, a number
JsonCategories == {"visa", Missing, JsonNull, "banana", "7"}

\* "urgency" of a response object: a value of the enumeration, absent, null, a string
\* outside the enumeration
JsonUrgencies == {"high", Missing, JsonNull, "now"}

\* every response: the outcomes above, JSON that is no object, and objects with any
\* of the values above in "category" and "urgency"
AiResponses ==
    AiOutcomes
    \cup {[kind |-> "not_object", is_relevant |-> FALSE, is_question |-> FALSE,
           category |-> "visa", urgency |-> "high"]}
    \cup [kind : {"ok"}, is_relevant : BOOLEAN, is_question : BOOLEAN,
          category : JsonCategories, urgency : JsonUrgencies]

\* data.get(key, default)
Get(value, default) == IF value = Missing THEN default ELSE value

\* the ClassificationResult _call_ai builds from a response
AiResult(ai) ==
    [is_relevant |-> ai.is_relevant, is_question |-> ai.is_question,
     category |-> Get(ai.category, "other"), urgency |-> Get(ai.urgency, "medium"),
     confidence |-> 9, method |-> "ai"]

NoneResult ==
    [is_relevant |-> FALSE, is_question |-> FALSE, category |-> "none",
     urgency |-> "none", confidence |-> 0, method |-> "none"]

\* if not self.anthropic_api_key or self.anthropic_api_key == "YOUR_ANTHROPIC_API_KEY"
KeyConfigured(key) == key # NoKey /\ key # PlaceholderKey

\* BaseClassifier._call_ai: None without a key; _get_ai_client() stands before the try
\* block and re-raises; every failure inside the try block gives None.
\* api tells whether client.messages.create was called
CallAi(key, ai) ==
    IF ~KeyConfigured(key)
    THEN [kind |-> "none", res |-> NoneResult, api |-> FALSE]
    ELSE IF ai.kind = "no_client"
    THEN [kind |-> "raise", res |-> NoneResult, api |-> FALSE]
    ELSE IF ai.kind = "ok"
    THEN [kind |-> "result", res |-> AiResult(ai), api |-> TRUE]
    ELSE [kind |-> "none", res |-> NoneResult, api |-> TRUE]

-----------------------------------------------------------------------------
(* The classifiers *)

\* the keys of _CATEGORY_MARKERS and of the dict categories of en.py, in the order
\* the dict literals list them
CategoryOrder ==
    <<"asylum", "deportation", "green_card", "visa", "work", "family", "citizenship",
      "tps">>

\* BaseClassifier._CATEGORY_MARKERS: of each list the markers that can be spelled
\* with the characters of Pieces
CATEGORY_MARKERS(cat) ==
    CASE cat = "deportation" -> <<Ice>>
      [] cat = "visa" -> <<H1b, Eb1>>
      [] cat = "tps" -> <<Tps>>
      [] OTHER -> <<>>

\* the dict categories of EnglishClassifier._detect_category, with the same restriction
categories(cat) ==
    CASE cat = "deportation" -> <<Ice>>
      [] cat = "visa" -> <<H1b, Eb1>>
      [] cat = "tps" -> <<Tps>>
      [] OTHER -> <<>>

\* the loop of EnglishClassifier._detect_category from the k-th category on
RECURSIVE DetectCategoryEnFrom(_, _)
DetectCategoryEnFrom(k, text_lower) ==
    IF k > Len(CategoryOrder) THEN "other"
    ELSE IF \E j \in DOMAIN categories(CategoryOrder[k]) :
               KeywordMatch(Lower(categories(CategoryOrder[k])[j]), text_lower)
    THEN CategoryOrder[k]
    ELSE DetectCategoryEnFrom(k + 1, text_lower)

\* EnglishClassifier._detect_category
DetectCategoryEn(text_lower) == DetectCategoryEnFrom(1, text_lower)

\* the loop of BaseClassifier._detect_category from the k-th category on
RECURSIVE DetectCategoryFrom(_, _)
DetectCategoryFrom(k, cleaned) ==
    IF k > Len(CategoryOrder) THEN "other"
    ELSE IF \E j \in DOMAIN CATEGORY_MARKERS(CategoryOrder[k]) :
               WordMatch(CleanText(CATEGORY_MARKERS(CategoryOrder[k])[j]), cleaned)
    THEN CategoryOrder[k]
    ELSE DetectCategoryFrom(k + 1, cleaned)

\* the loop taken from the last category backwards
RECURSIVE DetectCategoryBackFrom(_, _)
DetectCategoryBackFrom(k, cleaned) ==
    IF k < 1 THEN "other"
    ELSE IF \E j \in DOMAIN CATEGORY_MARKERS(CategoryOrder[k]) :
               WordMatch(CleanText(CATEGORY_MARKERS(CategoryOrder[k])[j]), cleaned)
    THEN CategoryOrder[k]
    ELSE DetectCategoryBackFrom(k - 1, cleaned)

DetectCategoryLastFirst(cleaned) == DetectCategoryBackFrom(Len(CategoryOrder), cleaned)

\* BaseClassifier._detect_category
DetectCategory(cleaned) == DetectCategoryFrom(1, cleaned)

\* keyword_matches of _classify_keywords, with self.keywords = [kw.lower() ...]
KeywordMatches(text, cfg) ==
    CountKeywordMatch(LowerAll(cfg.en_keywords), Lower(text))

ClassifyKeywordsAnyMatch(text, cfg) ==
    KeywordResult(KeywordMatches(text, cfg) >= 1,
                  AnyContained(LowerAll(EnQuestionMarkers), Lower(text)),
                  DetectCategoryEn(Lower(text)),
                  KeywordMatches(text, cfg))

\* EnglishClassifier._classify_keywords
ClassifyKeywords(text, cfg) ==
    LET text_lower == Lower(text)
        keyword_matches == KeywordMatches(text, cfg)
        has_question == AnyContained(LowerAll(EnQuestionMarkers), text_lower)
        is_relevant == keyword_matches >= cfg.min_keyword_matches
    IN  KeywordResult(is_relevant, has_question, DetectCategoryEn(text_lower),
                      keyword_matches)

\* what a classify call did: it returned res or raised; pre is the keyword pre-filter's
\* result (keyword-first strategy only), aiCalled tells whether _call_ai was invoked,
\* api whether the request went out, kwUsed whether the returned result is the
\* keyword strategy's
Outcome(kind, res, pre, aiCalled, api, kwUsed) ==
    [kind |-> kind, res |-> res, pre |-> pre, aiCalled |-> aiCalled, api |-> api,
     kwUsed |-> kwUsed]

EnglishClassifyAlwaysVerify(text, cfg, ai) ==
    LET keyword_result == ClassifyKeywords(text, cfg)
        ai_result == CallAi(cfg.anthropic_api_key, ai)
    IN  IF ai_result.kind = "result"
        THEN Outcome("result", [ai_result.res EXCEPT !.method = "hybrid"],
                     keyword_result, TRUE, ai_result.api, FALSE)
        ELSE Outcome("result", keyword_result, keyword_result, TRUE, ai_result.api, TRUE)

\* EnglishClassifier.classify: keyword pre-filter, then _call_ai for matches
EnglishClassify(text, cfg, ai) ==
    LET keyword_result == ClassifyKeywords(text, cfg)
        ai_result == CallAi(cfg.anthropic_api_key, ai)
    IN  IF ~keyword_result.is_relevant
        THEN Outcome("result", keyword_result, keyword_result, FALSE, FALSE, TRUE)
        ELSE IF ai_result.kind = "raise"
        THEN Outcome("raise", NoneResult, keyword_result, TRUE, ai_result.api, FALSE)
        ELSE IF ai_result.kind = "none"
        THEN Outcome("result", keyword_result, keyword_result, TRUE, ai_result.api, TRUE)
        ELSE Outcome("result", [ai_result.res EXCEPT !.method = "hybrid"],
                     keyword_result, TRUE, ai_result.api, FALSE)

\* source_lang in ("uk", "uk/ru", "ru/uk")
IncludesUk(source_lang) == source_lang \in {"uk", "uk/ru", "ru/uk"}

\* keywords = self.ru_keywords[:], extended by self.uk_keywords; both lists were
\* passed through _clean_text by __init__
CyrillicKeywords(source_lang) ==
    CleanAll(IF IncludesUk(source_lang) THEN RuKeywords \o UkKeywords
             ELSE RuKeywords)

\* kw_matches of the fallback
CyrillicKeywordMatches(text, source_lang) ==
    CountWordMatch(CyrillicKeywords(source_lang), CleanText(text))

\* CyrillicClassifier._has_implicit_question
HasImplicitQuestion(text_lower, source_lang) ==
    AnyContained(LowerAll(IF IncludesUk(source_lang)
                          THEN RuQuestionMarkers \o UkQuestionMarkers
                          ELSE RuQuestionMarkers),
                 text_lower)

\* CyrillicClassifier.classify, the branch "if ai_result is None"
CyrillicFallback(text, source_lang) ==
    LET cleaned == CleanText(text)
        kw_matches == CyrillicKeywordMatches(text, source_lang)
        has_question == HasImplicitQuestion(Lower(text), source_lang)
        category == IF kw_matches >= 1 THEN DetectCategory(cleaned) ELSE "other"
    IN  KeywordResult(kw_matches >= 1, has_question, category, kw_matches)

CyrillicClassifyKeywordGate(text, source_lang, cfg, ai) ==
    LET ai_result == CallAi(cfg.anthropic_api_key, ai)
    IN  IF CyrillicKeywordMatches(text, source_lang) = 0 \/ ai_result.kind # "result"
        THEN Outcome("result", CyrillicFallback(text, source_lang), NoneResult,
                     CyrillicKeywordMatches(text, source_lang) > 0,
                     CyrillicKeywordMatches(text, source_lang) > 0 /\ ai_result.api,
                     TRUE)
        ELSE Outcome("result", [ai_result.res EXCEPT !.method = "ai"], NoneResult,
                     TRUE, ai_result.api, FALSE)

\* CyrillicClassifier.classify: _call_ai first, the keyword heuristic if it gave None
CyrillicClassify(text, source_lang, cfg, ai) ==
    LET ai_result == CallAi(cfg.anthropic_api_key, ai)
    IN  IF ai_result.kind = "raise"
        THEN Outcome("raise", NoneResult, NoneResult, TRUE, ai_result.api, FALSE)
        ELSE IF ai_result.kind = "none"
        THEN Outcome("result", CyrillicFallback(text, source_lang), NoneResult,
                     TRUE, ai_result.api, TRUE)
        ELSE Outcome("result", [ai_result.res EXCEPT !.method = "ai"], NoneResult,
                     TRUE, ai_result.api, FALSE)

CyrillicLangs == {"ru", "uk", "ru/uk", "uk/ru"}

RouteByText(text, source_lang) ==
    IF source_lang \in CyrillicLangs /\ ~Contains(<<"I">>, text)
    THEN "cyrillic" ELSE "en"

\* Classifier.classify: if source_lang in ("ru", "uk", "ru/uk", "uk/ru")
Route(text, source_lang) ==
    IF source_lang \in CyrillicLangs THEN "cyrillic" ELSE "en"

\* Classifier.classify
ClassifierClassify(text, source_lang, cfg, ai) ==
    IF Route(text, source_lang) = "cyrillic"
    THEN CyrillicClassify(text, source_lang, cfg, ai)
    ELSE EnglishClassify(text, cfg, ai)

\* no call yet; the classifier was constructed with cfg
NoCall ==
    [done |-> FALSE, text |-> <<>>, lang |-> "en",
     cfg |-> [en_keywords |-> <<>>, min_keyword_matches |-> 1,
              anthropic_api_key |-> NoKey],
     ai |-> [kind |-> "api_error", is_relevant |-> FALSE, is_question |-> FALSE,
             category |-> "visa", urgency |-> "high"],
     route |-> "none",
     out |-> Outcome("none", NoneResult, NoneResult, FALSE, FALSE, FALSE)]

\* texts for the calls whose response varies: no keyword, a Russian keyword, a
\* Ukrainian keyword, a question mark
ResponseTexts == {<<>>, Ice, <<"c", "i">>, <<"?">>}

\* the keywords handed to _keyword_match and _word_match by their callers
TextKeywords == {Ice, Tps, H1b, Eb1, <<"s">>}

\* no classifier call yet, no purge yet
NoTrail == [raised |-> NoItem, purged |-> FALSE]

\* history: classifier.classify was called for id and has returned or raised; trail
\* keeps the id of the last call as long as that call is one that raised
Invoked(tr, id, raised) == [tr EXCEPT !.raised = IF raised THEN id ELSE NoItem]

\* history: cleanup_old_records(days) has run at time t on these tables
AfterPurge(tr, rows, log, t, days) ==
    [tr EXCEPT !.purged = @ \/ CleanupRows(rows, t, days) # rows
                            \/ CleanupLog(log, t, days) # log]

\* no text function called yet
NoFn ==
    [op |-> "none", text |-> <<>>, arg |-> <<>>, marker |-> <<>>, ret |-> FALSE,
     cat |-> "none"]

-----------------------------------------------------------------------------
(* The source adapters in detail: fetch of RedditSource, ForumSource (RSS) and *)
(* TelegramSource                                                              *)

\* lookback_hours as the callers of fetch compute it
LookbackChoices == {LookbackHours(SourceNames[k]) : k \in DOMAIN SourceNames}

\* cutoff = datetime.now(timezone.utc) - timedelta(hours=lookback_hours)
Cutoff(t, lookback_hours) == t - lookback_hours * Hour

\* the times an origin can give: before the cutoff, at the cutoff, now
OriginTimes(t, lookback_hours) ==
    {Cutoff(t, lookback_hours) - 1, Cutoff(t, lookback_hours), t}

\* published_parsed / updated_parsed of an entry: the attribute is absent, it is
\* None (feedparser could not parse the date), or it is a time
NoDate == [has |-> "absent", t |-> 0]
Dates(t, lookback_hours) ==
    {NoDate, [has |-> "null", t |-> 0]}
    \cup {[has |-> "time", t |-> x] : x \in OriginTimes(t, lookback_hours)}

\* the entries a feed can hold; link tells whether entry.link exists. RedditSource
\* does not read updated_parsed
Entries(kind, t, lookback_hours) ==
    IF kind = "reddit"
    THEN [published : Dates(t, lookback_hours), updated : {NoDate}, link : BOOLEAN]
    ELSE [published : Dates(t, lookback_hours),
          updated : {NoDate, [has |-> "time", t |-> Cutoff(t, lookback_hours) - 1],
                     [has |-> "time", t |-> t]},
          link : BOOLEAN]

NoEntry == [published |-> NoDate, updated |-> NoDate, link |-> TRUE]

\* created of an entry, or the exception of datetime(*None[:6], ...).
\* reddit: if hasattr(entry, 'published_parsed') ... else now
\* forum: published_parsed if set, elif updated_parsed if set, else now
EntryCreated(kind, e, t) ==
    IF kind = "reddit"
    THEN IF e.published.has = "absent" THEN [ok |-> TRUE, t |-> t]
         ELSE IF e.published.has = "null" THEN [ok |-> FALSE, t |-> 0]
         ELSE [ok |-> TRUE, t |-> e.published.t]
    ELSE IF e.published.has = "time" THEN [ok |-> TRUE, t |-> e.published.t]
         ELSE IF e.updated.has = "time" THEN [ok |-> TRUE, t |-> e.updated.t]
         ELSE [ok |-> TRUE, t |-> t]

CutoffNever(created, cutoff) == FALSE

\* if created < cutoff: continue (RSS) / break (Telegram)
BeforeCutoff(created, cutoff) == created < cutoff

\* the MonitorItem built from the n-th entry or message
NewItem(n, source, created) == [n |-> n, source |-> source, created_at |-> created]

\* the body of "for entry in feed.entries": the list items after the n-th entry e.
\* An exception (the date is None, entry.link is missing) is caught per entry
EntryStep(kind, acc, n, e, t, lookback_hours) ==
    LET created == EntryCreated(kind, e, t)
    IN  IF ~created.ok THEN acc
        ELSE IF BeforeCutoff(created.t, Cutoff(t, lookback_hours)) THEN acc
        ELSE IF ~e.link THEN acc
        ELSE Append(acc, NewItem(n, kind, created.t))

EntryStepAbort(kind, acc, n, e, t, lookback_hours) ==
    LET created == EntryCreated(kind, e, t)
    IN  IF ~created.ok \/ ~e.link THEN <<>>
        ELSE IF BeforeCutoff(created.t, Cutoff(t, lookback_hours)) THEN acc
        ELSE Append(acc, NewItem(n, kind, created.t))

\* no fetch of an RSS adapter yet. expect: the well-formed entries inside the
\* lookback window that the feed has held
NoRss ==
    [pc |-> "idle", kind |-> "reddit", lookback |-> 1, n |-> 0, items |-> <<>>,
     expect |-> <<>>, last |-> NoEntry]

\* self.groups, then self.channels: one group and one channel
TgEntities == <<"telegram", "telegram_channel">>

\* e.seconds of a FloodWaitError
FloodSeconds == {61}

\* the messages iter_messages can yield: no Message or no text; a message whose
\* handling raises; a message with a date, for which get_sender / get_messages is
\* not called, answers, or raises FloodWaitError
Messages(t, lookback_hours) ==
    {[kind |-> "skip", date |-> t, sender |-> "none"],
     [kind |-> "bad", date |-> t, sender |-> "none"]}
    \cup [kind : {"text"}, date : OriginTimes(t, lookback_hours),
          sender : {"none", "ok", "flood"}]

NoMessage == [kind |-> "skip", date |-> 0, sender |-> "none"]

\* no fetch of the Telegram adapter yet. clock: seconds since the fetch began;
\* quietUntil: the end of the longest wait a FloodWaitError has asked for; early:
\* a call to Telegram was issued before quietUntil; expect: the well-formed messages
\* inside the lookback window that were read; iterFlood: iter_messages has raised
\* FloodWaitError; all: all_items; acc: items of _fetch_entity
NoTg ==
    [pc |-> "idle", lookback |-> 1, ents |-> <<>>, n |-> 0, seq |-> 0, acc |-> <<>>,
     all |-> <<>>, expect |-> <<>>, clock |-> 0, quietUntil |-> 0, early |-> FALSE,
     iterFlood |-> FALSE, last |-> NoMessage]

\* a call to Telegram is issued now
Called(t) == [t EXCEPT !.early = @ \/ t.clock < t.quietUntil]

\* a FloodWaitError with e.seconds = s arrives now
Flooded(t, s) == [t EXCEPT !.quietUntil = Max(@, t.clock + s)]

\* _fetch_entity returned: all_items.extend(items); await asyncio.sleep(1); the next
\* entity
EntityReturned(t) ==
    [t EXCEPT !.all = @ \o t.acc, !.acc = <<>>, !.clock = @ + EntitySleep,
              !.ents = Tail(@), !.n = 0, !.pc = "resolve"]

\* _fetch_entity raised: the handlers of fetch; items of _fetch_entity is dropped;
\* slept is the time the handler sleeps
EntityRaised(t, slept) ==
    [t EXCEPT !.acc = <<>>, !.clock = @ + slept, !.ents = Tail(@), !.n = 0,
              !.pc = "resolve"]

-----------------------------------------------------------------------------
(* main / run_once / run_forever on the event loop's clock *)

\* the names of self.sources
Sources == {SourceNames[k] : k \in DOMAIN SourceNames}

\* reddit_interval, telegram_interval: check_interval_minutes * 60
Interval(src) ==
    IF src = "RedditSource" THEN CheckIntervalMinutes * 60
    ELSE TelegramIntervalMinutes * 60

\* if (now - last_run[name]) >= interval
Due(src, t, lastRun) == (t - lastRun[src]) >= Interval(src)

\* last_run = {type(s).__name__: 0 for s in self.sources}
InitialLastRun == [s \in Sources |-> 0]

\* loop.time() is a monotonic clock: its value at start is the machine's uptime
LoopStartTimes == {SleepSeconds, TelegramIntervalMinutes * 60}

MaxLoopTime == 2 * TelegramIntervalMinutes * 60 + ExtraTicks * SleepSeconds

\* time an await inside a pass takes: next to nothing, or as long as one sleep
AwaitSeconds == {0, SleepSeconds}

PropagateAlways(m) == "finally"

\* where control goes when an exception leaves process_source: run_forever's
\* "except Exception" logs it and falls through to the sleep, run_once has no handler
\* and the exception reaches main's finally block
OnPassException(m) == IF m = "forever" THEN "sleep" ELSE "finally"

\* history of one cycle: the sources that were due when it began, the sources whose
\* pass was started, the sources whose connect or pass raised, the calls of
\* cleanup_old_records; three fields outlive the cycle: the tick time of each source's
\* previous pass (prev), the sources that were started less than one interval after
\* it (early), and whether the loop has caught an exception (caught)
NoCycle ==
    [due |-> {}, started |-> {}, failed |-> {}, purges |-> 0,
     prev |-> [s \in Sources |-> -1], early |-> {}, caught |-> FALSE]

NewCycle(c, due) ==
    [NoCycle EXCEPT !.due = due, !.prev = c.prev, !.early = c.early,
                    !.caught = c.caught]

\* history of the shutdown signal: whether it arrived, whether an item was being
\* handled at that moment, the item iterations completed and the passes started since
NoSignal == [arrived |-> FALSE, inPass |-> FALSE, handledAfter |-> 0, startedAfter |-> 0]

-----------------------------------------------------------------------------
(* TelegramOutput: _format_message and send *)

\* the arguments send passes on from the ClassificationResult: None is "none", a
\* summary or draft is absent (""), a text, or (draft_response comes unchecked out of
\* the verification response) a value that is no string
SendCategories == {"visa", "none"}
SendUrgencies == {"high", "none"}
Summaries == {"", "summary"}
Drafts == {"", "draft", "nonstr"}

FormatArgs ==
    [id : ItemIds, category : SendCategories, urgency : SendUrgencies,
     summary : Summaries, draft : Drafts]

\* the keys of category_labels
CategoryLabels ==
    {"visa", "asylum", "deportation", "green_card", "work", "family", "citizenship",
     "tps", "other"}

\* datetime.utcnow().strftime('%H:%M UTC')
ClockText(t) == <<(t % Day) \div Hour, ((t % Hour) * 60) \div TicksPerHour>>

\* _format_message: the text, field by field; a summary or draft of "" adds no line.
\* The items of the model carry no location and no parent_title in extra
FormatMessage(a, t) ==
    [source_emoji |-> IF ItemSource(a.id) \in {"reddit_post", "reddit_comment", "telegram"}
                      THEN ItemSource(a.id) ELSE "default",
     group_label |-> ItemChannel(a.id),
     urgency_emoji |-> IF a.urgency \in {"high", "medium", "low"} THEN a.urgency ELSE "",
     category_label |-> IF a.category \in CategoryLabels THEN a.category ELSE "other",
     preview |-> <<Min(ItemTextLen(a.id), PreviewLen), ItemTextLen(a.id) > PreviewLen>>,
     summary |-> a.summary,
     draft |-> a.draft,
     url |-> ItemUrl(a.id),
     clock |-> ClockText(t),
     markup |-> TRUE]

\* "\n".join(lines) raises TypeError when draft_response is no string
FormatRaises(a) == a.draft = "nonstr"

\* message.replace("**", "").replace("*", "")
PlainMessage(msg) == [msg EXCEPT !.markup = FALSE]

\* what bot.send_message (or _get_bot before it) does: it returns, the channel rejects
\* the Markdown entities (BadRequest), or the transport fails (NetworkError, TimedOut)
Transport == {"ok", "bad_request", "network"}

\* no call yet. f1, f2: two calls of _format_message, each <<arguments, text>>;
\* attempts: calls of bot.send_message; first, second: how each attempt ended;
\* text: the text handed to the last attempt
NoSend ==
    [pc |-> "idle", args |-> <<>>, attempts |-> 0, first |-> "none", second |-> "none",
     ret |-> "none", raised |-> "none", text |-> <<>>, f1 |-> <<>>, f2 |-> <<>>]

\* no lookback computed yet
NoWindow == [pc |-> "idle", minutes |-> 0, once |-> 0, forever |-> 0]

-----------------------------------------------------------------------------
(* Initial state: the store is empty, no process runs *)

InitRest ==
    /\ now = StartTime
    /\ rssDated \in BOOLEAN
    /\ processed_items = {}
    /\ notification_log = <<>>
    /\ mode = [p \in Procs |-> "stopped"]
    /\ srcIdx = [p \in Procs |-> 0]
    /\ pc = [p \in Procs |-> "idle"]
    /\ items = [p \in Procs |-> <<>>]
    /\ idx = [p \in Procs |-> 0]
    /\ result = [p \in Procs |-> NoResult]
    /\ outIdx = [p \in Procs |-> 0]
    /\ lastOp = Quiet
    /\ sentLife = [i \in ItemIds |-> 0]
    /\ sentTotal = [i \in ItemIds |-> 0]
    /\ flipsLife = [i \in ItemIds |-> 0]
    /\ flipsTotal = [i \in ItemIds |-> 0]
    /\ undelivered = {}
    /\ undeliveredEver = {}
    /\ loopPc = "init"
    /\ runMode = "none"
    /\ running = TRUE
    /\ loopNow = 0
    /\ tickNow = 0
    /\ last_run = InitialLastRun
    /\ srcPos = 0
    /\ itemsLeft = 0
    /\ connected = {}
    /\ dbOpen = TRUE
    /\ escaped = "none"
    /\ cyc = NoCycle
    /\ sig = NoSignal
    /\ fn = NoFn
    /\ rss = NoRss
    /\ tg = NoTg
    /\ tgOut = NoSend
    /\ window = NoWindow
    /\ trail = NoTrail

Init == InitRest /\ call = NoCall

-----------------------------------------------------------------------------
(* The clock *)

Tick ==
    /\ now < StartTime + Horizon
    /\ now' = now + 1
    /\ lastOp' = Quiet
    /\ UNCHANGED <<ext, rssDated, store, mode, srcIdx, pass, hist>>

\* more than the retention period passes while no process runs
LongIdle ==
    /\ \A p \in Procs : mode[p] = "stopped"
    /\ now < StartTime + IdleJump
    /\ now' = StartTime + IdleJump
    /\ lastOp' = Quiet
    /\ UNCHANGED <<ext, rssDated, store, mode, srcIdx, pass, hist>>

-----------------------------------------------------------------------------
(* main / run_once / run_forever: the life of one process *)

\* main with --once: run_once connects the sources and walks self.sources
StartOnce(p) ==
    /\ mode[p] = "stopped"
    /\ mode' = [mode EXCEPT ![p] = "once"]
    /\ srcIdx' = [srcIdx EXCEPT ![p] = 1]
    /\ lastOp' = Quiet
    /\ UNCHANGED <<ext, now, rssDated, store, pass, hist>>

\* main without --once: run_forever
StartForever(p) ==
    /\ mode[p] = "stopped"
    /\ mode' = [mode EXCEPT ![p] = "forever"]
    /\ srcIdx' = [srcIdx EXCEPT ![p] = 0]
    /\ lastOp' = Quiet
    /\ UNCHANGED <<ext, now, rssDated, store, pass, hist>>

\* the source the next process_source call is for
DueSources(p) ==
    IF mode[p] = "once"
    THEN {SourceNames[k] : k \in {k \in DOMAIN SourceNames : k = srcIdx[p]}}
    ELSE IF mode[p] = "forever" THEN {SourceNames[k] : k \in DOMAIN SourceNames}
    ELSE {}

\* process_source has returned: run_once goes on to the next source
PassOver(p) ==
    /\ pc' = [pc EXCEPT ![p] = "idle"]
    /\ items' = [items EXCEPT ![p] = <<>>]
    /\ idx' = [idx EXCEPT ![p] = 0]
    /\ result' = [result EXCEPT ![p] = NoResult]
    /\ outIdx' = [outIdx EXCEPT ![p] = 0]

\* an exception leaves process_source: run_forever logs it and goes on, run_once
\* lets it through to main, whose finally block ends the process
PassRaised(p) ==
    /\ PassOver(p)
    /\ mode' = [mode EXCEPT ![p] = IF mode[p] = "once" THEN "stopped" ELSE mode[p]]
    /\ srcIdx' = [srcIdx EXCEPT ![p] = 0]

\* items = await source.fetch(lookback_hours)
Fetch(p) ==
    /\ pc[p] = "idle"
    /\ \E src \in DueSources(p) : \E list \in FetchLists(src, now) :
          /\ items' = [items EXCEPT ![p] = list]
          /\ lastOp' = Quiet
    /\ idx' = [idx EXCEPT ![p] = 1]
    /\ pc' = [pc EXCEPT ![p] = "loop"]
    /\ UNCHANGED <<ext, now, rssDated, store, mode, srcIdx, result, outIdx, hist>>

\* except Exception: log and return
FetchError(p) ==
    /\ pc[p] = "idle"
    /\ DueSources(p) # {}
    /\ srcIdx' = [srcIdx EXCEPT ![p] = IF mode[p] = "once" THEN srcIdx[p] + 1 ELSE 0]
    /\ lastOp' = Quiet
    /\ UNCHANGED <<ext, now, rssDated, store, mode, pass, hist>>

-----------------------------------------------------------------------------
(* process_source: the loop over the fetched items *)

Cur(p) == items[p][idx[p]]

\* continue / fall through to the next iteration of "for item in items"
NextItem(p) ==
    /\ idx' = [idx EXCEPT ![p] = idx[p] + 1]
    /\ pc' = [pc EXCEPT ![p] = "loop"]
    /\ result' = [result EXCEPT ![p] = NoResult]
    /\ outIdx' = [outIdx EXCEPT ![p] = 0]
    /\ UNCHANGED items

TooShortNever(i) == FALSE

\* len(item.text) < self.min_text_length
TooShort(i) == ItemTextLen(i) < MinTextLength

\* if self.db.is_processed(item.id): continue;  if len(item.text) < self.min_text_length
CheckProcessed(p) ==
    /\ pc[p] = "loop"
    /\ idx[p] <= Len(items[p])
    /\ IF IsProcessed(processed_items, Cur(p))
       THEN /\ NextItem(p)
            /\ lastOp' = [Op("skip_seen", p, Cur(p)) EXCEPT !.existed = TRUE]
       ELSE /\ pc' = [pc EXCEPT ![p] =
                        IF TooShort(Cur(p)) THEN "mark_short" ELSE "classify"]
            /\ lastOp' = Quiet
            /\ UNCHANGED <<items, idx, result, outIdx>>
    /\ UNCHANGED <<ext, now, rssDated, store, mode, srcIdx, hist>>

\* the short-text branch: mark_processed without classification, continue
MarkShort(p) ==
    /\ pc[p] = "mark_short"
    /\ processed_items' =
          MarkProcessed(processed_items, Cur(p), ItemSource(Cur(p)), ItemChannel(Cur(p)),
                        ItemTextLen(Cur(p)), ItemUrl(Cur(p)), Null, now)
    /\ lastOp' = [Op("mark_processed", p, Cur(p)) EXCEPT
                    !.existed = IsProcessed(processed_items, Cur(p))]
    /\ NextItem(p)
    /\ UNCHANGED <<ext, now, rssDated, notification_log, mode, srcIdx, hist>>

\* result = self.classifier.classify(...): the classifier returns a result
Classify(p) ==
    /\ pc[p] = "classify"
    /\ \E r \in Results : result' = [result EXCEPT ![p] = r]
    /\ pc' = [pc EXCEPT ![p] = "mark"]
    /\ lastOp' = Quiet
    /\ trail' = Invoked(trail, Cur(p), FALSE)
    /\ UNCHANGED <<rest, now, rssDated, store, mode, srcIdx, items, idx, outIdx, hist>>

\* _call_ai: self._get_ai_client() is called outside the try block and re-raises
\* when the client cannot be created; nothing in process_source catches it
ClassifyRaise(p) ==
    /\ pc[p] = "classify"
    /\ lastOp' = [Op("classify_raised", p, Cur(p)) EXCEPT
                    !.raised = "ImportError"]
    /\ PassRaised(p)
    /\ trail' = Invoked(trail, Cur(p), TRUE)
    /\ UNCHANGED <<rest, now, rssDated, store, hist>>

\* mark_processed with the classification, then the actionability test
MarkClassified(p) ==
    /\ pc[p] = "mark"
    /\ processed_items' =
          MarkProcessed(processed_items, Cur(p), ItemSource(Cur(p)), ItemChannel(Cur(p)),
                        ItemTextLen(Cur(p)), ItemUrl(Cur(p)), Json(result[p]), now)
    /\ lastOp' = [Op("mark_processed", p, Cur(p)) EXCEPT
                    !.existed = IsProcessed(processed_items, Cur(p)),
                    !.cls = Json(result[p])]
    /\ IF IsActionable(result[p], ItemSource(Cur(p))) /\ NumOutputs >= 1
       THEN /\ pc' = [pc EXCEPT ![p] = "send"]
            /\ outIdx' = [outIdx EXCEPT ![p] = 1]
            /\ UNCHANGED <<items, idx, result>>
       ELSE NextItem(p)
    /\ UNCHANGED <<ext, now, rssDated, notification_log, mode, srcIdx, hist>>

Bump(f, id) == [f EXCEPT ![id] = f[id] + 1]

\* a send that writes the notification itself
SendAndMark(p) ==
    /\ pc[p] = "send"
    /\ processed_items' = MarkNotifiedRows(processed_items, Cur(p))
    /\ notification_log' = MarkNotifiedLog(notification_log, Cur(p), now)
    /\ lastOp' = [Op("send", p, Cur(p)) EXCEPT !.ret = "sent", !.out = outIdx[p]]
    /\ pc' = [pc EXCEPT ![p] = "notify"]
    /\ sentLife' = Bump(sentLife, Cur(p))
    /\ sentTotal' = Bump(sentTotal, Cur(p))
    /\ UNCHANGED <<ext, now, rssDated, items, idx, result, outIdx, mode, srcIdx,
                   undelivered, undeliveredEver, flipsLife, flipsTotal>>

\* sent = await output.send(item, result, self.db), for the output at outIdx
Send(p) ==
    /\ pc[p] = "send"
    /\ \E out \in (IF RateLimited(notification_log, now, MaxPerHour)
                    THEN {"rate_limited"} ELSE SendOutcomes) :
          /\ lastOp' = [Op("send", p, Cur(p)) EXCEPT
                          !.ret = out, !.out = outIdx[p],
                          !.raised = IF out = "raised" THEN "TypeError" ELSE "none",
                          !.trueCount = TrueCountLastHour(notification_log, now)]
          /\ CASE out \in {"sent", "sent_plain"} ->
                    /\ pc' = [pc EXCEPT ![p] = "notify"]
                    /\ sentLife' = Bump(sentLife, Cur(p))
                    /\ sentTotal' = Bump(sentTotal, Cur(p))
                    /\ UNCHANGED <<items, idx, result, outIdx, mode, srcIdx,
                                   undelivered, undeliveredEver>>
               [] out = "raised" ->
                    /\ PassRaised(p)
                    /\ UNCHANGED <<sentLife, sentTotal, undelivered, undeliveredEver>>
               [] OTHER ->
                    IF outIdx[p] < NumOutputs
                    THEN /\ outIdx' = [outIdx EXCEPT ![p] = outIdx[p] + 1]
                         /\ UNCHANGED <<pc, items, idx, result, mode, srcIdx, sentLife,
                                        sentTotal, undelivered, undeliveredEver>>
                    ELSE /\ NextItem(p)
                         /\ undelivered' = undelivered \cup {Cur(p)}
                         /\ undeliveredEver' = undeliveredEver \cup {Cur(p)}
                         /\ UNCHANGED <<mode, srcIdx, sentLife, sentTotal>>
    /\ UNCHANGED <<ext, now, rssDated, store, flipsLife, flipsTotal>>

\* if sent: self.db.mark_notified(item.id); sleep; break
MarkNotified(p) ==
    /\ pc[p] = "notify"
    /\ processed_items' = MarkNotifiedRows(processed_items, Cur(p))
    /\ notification_log' = MarkNotifiedLog(notification_log, Cur(p), now)
    /\ lastOp' = [Op("mark_notified", p, Cur(p)) EXCEPT
                    !.existed = IsProcessed(processed_items, Cur(p))]
    /\ IF \E r \in processed_items : r.id = Cur(p) /\ ~r.notified
       THEN /\ flipsLife' = Bump(flipsLife, Cur(p))
            /\ flipsTotal' = Bump(flipsTotal, Cur(p))
       ELSE UNCHANGED <<flipsLife, flipsTotal>>
    /\ NextItem(p)
    /\ UNCHANGED <<ext, now, rssDated, mode, srcIdx, sentLife, sentTotal,
                   undelivered, undeliveredEver>>

\* the for loop is exhausted: process_source logs and returns
EndPass(p) ==
    /\ pc[p] = "loop"
    /\ idx[p] > Len(items[p])
    /\ lastOp' = Quiet
    /\ PassOver(p)
    /\ srcIdx' = [srcIdx EXCEPT ![p] = IF mode[p] = "once" THEN srcIdx[p] + 1 ELSE 0]
    /\ UNCHANGED <<ext, now, rssDated, store, mode, hist>>

Purged(rows, rowsAfter) == {r.id : r \in rows} \ {r.id : r \in rowsAfter}

\* run_once after the last source: self.db.cleanup_old_records(days=30); main then
\* runs cleanup() and the process ends
Cleanup(p) ==
    /\ mode[p] = "once"
    /\ pc[p] = "idle"
    /\ srcIdx[p] > Len(SourceNames)
    /\ processed_items' = CleanupRows(processed_items, now, CleanupDays)
    /\ notification_log' = CleanupLog(notification_log, now, CleanupDays)
    /\ LET gone == Purged(processed_items, CleanupRows(processed_items, now, CleanupDays))
       IN  /\ sentLife' = [i \in ItemIds |-> IF i \in gone THEN 0 ELSE sentLife[i]]
           /\ flipsLife' = [i \in ItemIds |-> IF i \in gone THEN 0 ELSE flipsLife[i]]
           /\ undelivered' = undelivered \ gone
           /\ lastOp' = Op("cleanup", p, NoItem)
    /\ trail' = AfterPurge(trail, processed_items, notification_log, now, CleanupDays)
    /\ mode' = [mode EXCEPT ![p] = "stopped"]
    /\ srcIdx' = [srcIdx EXCEPT ![p] = 0]
    /\ UNCHANGED <<rest, now, rssDated, pass, sentTotal, flipsTotal, undeliveredEver>>

\* SIGINT / SIGTERM: stop() clears _running, the while loop ends, main runs cleanup()
Stop(p) ==
    /\ mode[p] = "forever"
    /\ pc[p] = "idle"
    /\ mode' = [mode EXCEPT ![p] = "stopped"]
    /\ lastOp' = Quiet
    /\ UNCHANGED <<ext, now, rssDated, store, srcIdx, pass, hist>>

-----------------------------------------------------------------------------
(* main: the scheduling loop and the life cycle of the process *)

\* main: signal handlers are installed, then run_once (--once) or run_forever begins
StartMain(m) ==
    /\ loopPc = "init"
    /\ runMode' = m
    /\ \E t \in LoopStartTimes : loopNow' = t
    /\ loopPc' = "connect"
    /\ srcPos' = 1
    /\ UNCHANGED <<pipeline, call, units, running, tickNow, last_run, itemsLeft, connected,
                   dbOpen, escaped, cyc, sig>>

\* after the connect loop: run_once walks self.sources, run_forever sets last_run
\* and enters the while loop
AfterConnect ==
    IF runMode = "once"
    THEN /\ loopPc' = "sources"
         /\ srcPos' = 1
         /\ cyc' = NewCycle(cyc, Sources)
         /\ UNCHANGED last_run
    ELSE /\ loopPc' = "tick"
         /\ srcPos' = 0
         /\ last_run' = InitialLastRun
         /\ UNCHANGED cyc

\* for source in self.sources: await source.connect()
\* (BaseSource.connect does nothing, TelegramSource.connect starts the client)
ConnectSource ==
    /\ loopPc = "connect"
    /\ srcPos <= Len(SourceNames)
    /\ connected' = IF SourceNames[srcPos] = "TelegramSource"
                    THEN connected \cup {SourceNames[srcPos]} ELSE connected
    /\ IF srcPos < Len(SourceNames)
       THEN /\ srcPos' = srcPos + 1
            /\ UNCHANGED <<loopPc, last_run, cyc>>
       ELSE AfterConnect
    /\ UNCHANGED <<pipeline, call, units, runMode, running, loopNow, tickNow, itemsLeft,
                   dbOpen, escaped, sig>>

\* client.start raises: the connect loop stands outside every try block, the exception
\* leaves run_once / run_forever and main's finally block runs
ConnectRaise ==
    /\ loopPc = "connect"
    /\ srcPos <= Len(SourceNames)
    /\ SourceNames[srcPos] = "TelegramSource"
    /\ escaped' = "ConnectError"
    /\ loopPc' = "finally"
    /\ srcPos' = 1
    /\ cyc' = [cyc EXCEPT !.failed = cyc.failed \cup {SourceNames[srcPos]}]
    /\ UNCHANGED <<pipeline, call, units, runMode, running, loopNow, tickNow, last_run,
                   itemsLeft, connected, dbOpen, sig>>

\* while self._running: now = asyncio.get_event_loop().time()
TickTop ==
    /\ loopPc = "tick"
    /\ running
    /\ loopNow <= MaxLoopTime
    /\ tickNow' = loopNow
    /\ srcPos' = 1
    /\ loopPc' = "sources"
    /\ cyc' = NewCycle(cyc, {s \in Sources : Due(s, loopNow, last_run)})
    /\ UNCHANGED <<pipeline, call, units, runMode, running, loopNow, last_run, itemsLeft,
                   connected, dbOpen, escaped, sig>>

\* the while condition is false: run_forever returns, main's finally block runs
LoopExit ==
    /\ loopPc = "tick"
    /\ ~running
    /\ loopPc' = "finally"
    /\ srcPos' = 1
    /\ UNCHANGED <<pipeline, call, units, runMode, running, loopNow, tickNow, last_run,
                   itemsLeft, connected, dbOpen, escaped, cyc, sig>>

\* run_forever: the source at srcPos is not due
SkipSource ==
    /\ loopPc = "sources"
    /\ runMode = "forever"
    /\ srcPos <= Len(SourceNames)
    /\ ~Due(SourceNames[srcPos], tickNow, last_run)
    /\ srcPos' = srcPos + 1
    /\ UNCHANGED <<pipeline, call, units, loopPc, runMode, running, loopNow, tickNow,
                   last_run, itemsLeft, connected, dbOpen, escaped, cyc, sig>>

\* the history of a pass that starts for src in the tick read at t
Started(c, src, t) ==
    [c EXCEPT !.started = c.started \cup {src},
              !.prev = [c.prev EXCEPT ![src] = t],
              !.early = IF c.prev[src] >= 0 /\ t - c.prev[src] < Interval(src)
                        THEN c.early \cup {src} ELSE c.early]

\* await self.process_source(source, ...): fetch returns a list of n unseen items
PassStart ==
    /\ loopPc = "sources"
    /\ srcPos <= Len(SourceNames)
    /\ runMode = "forever" => Due(SourceNames[srcPos], tickNow, last_run)
    /\ \E n \in 0..MaxItems : itemsLeft' = n
    /\ \E d \in AwaitSeconds : loopNow' = loopNow + d
    /\ loopPc' = "in_pass"
    /\ cyc' = Started(cyc, SourceNames[srcPos], tickNow)
    /\ sig' = IF sig.arrived
              THEN [sig EXCEPT !.startedAfter = sig.startedAfter + 1] ELSE sig
    /\ UNCHANGED <<pipeline, call, units, runMode, running, tickNow, last_run, srcPos,
                   connected, dbOpen, escaped>>

\* one iteration of "for item in items" runs to its end
PassItem ==
    /\ loopPc = "in_pass"
    /\ itemsLeft > 0
    /\ itemsLeft' = itemsLeft - 1
    /\ \E d \in AwaitSeconds : loopNow' = loopNow + d
    /\ sig' = IF sig.arrived
              THEN [sig EXCEPT !.handledAfter = sig.handledAfter + 1] ELSE sig
    /\ UNCHANGED <<pipeline, call, units, loopPc, runMode, running, tickNow, last_run,
                   srcPos, connected, dbOpen, escaped, cyc>>

\* an iteration raises (classify: _get_ai_client re-raises; send: _format_message
\* stands outside the try block): the exception leaves process_source
PassItemRaise ==
    /\ loopPc = "in_pass"
    /\ itemsLeft > 0
    /\ itemsLeft' = 0
    /\ loopPc' = OnPassException(runMode)
    /\ cyc' = [cyc EXCEPT !.failed = cyc.failed \cup {SourceNames[srcPos]},
                          !.caught = cyc.caught \/ OnPassException(runMode) = "sleep"]
    /\ escaped' = IF OnPassException(runMode) = "finally" THEN "PassError" ELSE escaped
    /\ srcPos' = IF OnPassException(runMode) = "finally" THEN 1 ELSE srcPos
    /\ UNCHANGED <<pipeline, call, units, runMode, running, loopNow, tickNow, last_run,
                   connected, dbOpen, sig>>

\* process_source returns (the list is exhausted, or fetch failed and was logged);
\* run_forever: last_run[name] = now
PassReturn ==
    /\ loopPc = "in_pass"
    /\ itemsLeft = 0
    /\ last_run' = IF runMode = "forever"
                   THEN [last_run EXCEPT ![SourceNames[srcPos]] = tickNow]
                   ELSE last_run
    /\ srcPos' = srcPos + 1
    /\ loopPc' = "sources"
    /\ UNCHANGED <<pipeline, call, units, runMode, running, loopNow, tickNow, itemsLeft,
                   connected, dbOpen, escaped, cyc, sig>>

\* the for loop over self.sources is exhausted
EndSources ==
    /\ loopPc = "sources"
    /\ srcPos > Len(SourceNames)
    /\ loopPc' = IF runMode = "forever" THEN "sleep" ELSE "purge"
    /\ UNCHANGED <<pipeline, call, units, runMode, running, loopNow, tickNow, last_run,
                   srcPos, itemsLeft, connected, dbOpen, escaped, cyc, sig>>

\* run_once: self.db.cleanup_old_records(days=30), then run_once returns
PurgeOnce ==
    /\ loopPc = "purge"
    /\ processed_items' = CleanupRows(processed_items, now, CleanupDays)
    /\ notification_log' = CleanupLog(notification_log, now, CleanupDays)
    /\ cyc' = [cyc EXCEPT !.purges = cyc.purges + 1]
    /\ loopPc' = "finally"
    /\ srcPos' = 1
    /\ trail' = AfterPurge(trail, processed_items, notification_log, now, CleanupDays)
    /\ UNCHANGED <<now, rssDated, mode, srcIdx, pass, lastOp, hist, call, fn, rss, tg,
                   tgOut, window, runMode, running, loopNow, tickNow, last_run,
                   itemsLeft, connected, dbOpen, escaped, sig>>

\* run_forever: await asyncio.sleep(60), then back to the while condition
Sleep ==
    /\ loopPc = "sleep"
    /\ loopNow' = loopNow + SleepSeconds
    /\ loopPc' = "tick"
    /\ UNCHANGED <<pipeline, call, units, runMode, running, tickNow, last_run, srcPos,
                   itemsLeft, connected, dbOpen, escaped, cyc, sig>>

\* SIGINT / SIGTERM: signal_handler calls monitor.stop(), which clears _running
Signal ==
    /\ loopPc \notin {"init", "exited"}
    /\ ~sig.arrived
    /\ running' = FALSE
    /\ sig' = [sig EXCEPT !.arrived = TRUE,
                          !.inPass = (loopPc = "in_pass" /\ itemsLeft > 0)]
    /\ UNCHANGED <<pipeline, call, units, loopPc, runMode, loopNow, tickNow, last_run,
                   srcPos, itemsLeft, connected, dbOpen, escaped, cyc>>

\* cleanup: for source in self.sources: await source.disconnect()
\* (self.client is set by every connect attempt, so "if self.client" holds here)
Disconnect ==
    /\ loopPc = "finally"
    /\ srcPos <= Len(SourceNames)
    /\ connected' = connected \ {SourceNames[srcPos]}
    /\ srcPos' = srcPos + 1
    /\ UNCHANGED <<pipeline, call, units, loopPc, runMode, running, loopNow, tickNow,
                   last_run, itemsLeft, dbOpen, escaped, cyc, sig>>

\* client.disconnect raises: cleanup is left before self.db.close()
DisconnectRaise ==
    /\ loopPc = "finally"
    /\ srcPos <= Len(SourceNames)
    /\ SourceNames[srcPos] = "TelegramSource"
    /\ escaped' = "DisconnectError"
    /\ loopPc' = "exited"
    /\ UNCHANGED <<pipeline, call, units, runMode, running, loopNow, tickNow, last_run,
                   srcPos, itemsLeft, connected, dbOpen, cyc, sig>>

\* cleanup: self.db.close(); the process ends
CloseDb ==
    /\ loopPc = "finally"
    /\ srcPos > Len(SourceNames)
    /\ dbOpen' = FALSE
    /\ loopPc' = "exited"
    /\ UNCHANGED <<pipeline, call, units, runMode, running, loopNow, tickNow, last_run,
                   srcPos, itemsLeft, connected, escaped, cyc, sig>>

-----------------------------------------------------------------------------
(* A call of Classifier.classify *)

ClassifyCall ==
    /\ ~call.done
    /\ \E text \in Texts, source_lang \in Langs, ai \in AiOutcomes :
          call' = [call EXCEPT
                     !.done = TRUE, !.text = text, !.lang = source_lang, !.ai = ai,
                     !.route = Route(text, source_lang),
                     !.out = ClassifierClassify(text, source_lang, call.cfg, ai)]
    /\ UNCHANGED <<pipeline, loopv, units>>

\* Classifier.classify with any response of the verification capability
ClassifyResponse ==
    /\ ~call.done
    /\ \E text \in ResponseTexts, source_lang \in Langs, ai \in AiResponses :
          call' = [call EXCEPT
                     !.done = TRUE, !.text = text, !.lang = source_lang, !.ai = ai,
                     !.route = Route(text, source_lang),
                     !.out = ClassifierClassify(text, source_lang, call.cfg, ai)]
    /\ UNCHANGED <<pipeline, loopv, units>>

-----------------------------------------------------------------------------
(* Calls of the classifiers' text functions, with arguments as their callers build *)
(* them                                                                        *)

\* BaseClassifier._clean_text(text)
CleanTextCall ==
    /\ fn.op = "none"
    /\ \E text \in PieceTexts :
          fn' = [NoFn EXCEPT !.op = "clean_text", !.text = text,
                             !.arg = CleanText(text)]
    /\ UNCHANGED <<pipeline, loopv, call, rss, tg, more>>

\* BaseClassifier._word_match(kw, cleaned): kw and cleaned come from _clean_text
WordMatchCall ==
    /\ fn.op = "none"
    /\ \E text \in PieceTexts, kw \in TextKeywords :
          fn' = [NoFn EXCEPT !.op = "word_match", !.text = text,
                             !.arg = CleanText(text), !.marker = CleanText(kw),
                             !.ret = WordMatch(CleanText(kw), CleanText(text))]
    /\ UNCHANGED <<pipeline, loopv, call, rss, tg, more>>

\* EnglishClassifier._keyword_match(kw, text_lower): kw and text_lower are lowercased
KeywordMatchCall ==
    /\ fn.op = "none"
    /\ \E text \in PieceTexts, kw \in TextKeywords :
          fn' = [NoFn EXCEPT !.op = "keyword_match", !.text = text,
                             !.arg = Lower(text), !.marker = Lower(kw),
                             !.ret = KeywordMatch(Lower(kw), Lower(text))]
    /\ UNCHANGED <<pipeline, loopv, call, rss, tg, more>>

\* BaseClassifier._detect_category(cleaned), as the verify-first fallback calls it
DetectCategoryCall ==
    /\ fn.op = "none"
    /\ \E text \in PieceTexts :
          fn' = [NoFn EXCEPT !.op = "detect_category", !.text = text,
                             !.arg = CleanText(text),
                             !.cat = DetectCategory(CleanText(text))]
    /\ UNCHANGED <<pipeline, loopv, call, rss, tg, more>>

\* EnglishClassifier._detect_category(text_lower), as _classify_keywords calls it
DetectCategoryEnCall ==
    /\ fn.op = "none"
    /\ \E text \in PieceTexts :
          fn' = [NoFn EXCEPT !.op = "detect_category_en", !.text = text,
                             !.arg = Lower(text),
                             !.cat = DetectCategoryEn(Lower(text))]
    /\ UNCHANGED <<pipeline, loopv, call, rss, tg, more>>

-----------------------------------------------------------------------------
(* fetch of the RSS adapters *)

\* RedditSource.fetch / ForumSource.fetch: the cutoff, then the request of the feed
RssFetchStart ==
    /\ rss.pc = "idle" /\ tg.pc = "idle"
    /\ \E kind \in {"reddit", "forum"}, lookback_hours \in LookbackChoices :
          rss' = [NoRss EXCEPT !.pc = "request", !.kind = kind,
                               !.lookback = lookback_hours]
    /\ UNCHANGED <<pipeline, loopv, call, fn, tg, more>>

\* self.session.get / raise_for_status raise: logged, the items so far are returned
RssRequestError ==
    /\ rss.pc = "request"
    /\ rss' = [rss EXCEPT !.pc = "done"]
    /\ UNCHANGED <<pipeline, loopv, call, fn, tg, more>>

\* feed = feedparser.parse(response.content)
RssParsed ==
    /\ rss.pc = "request"
    /\ rss' = [rss EXCEPT !.pc = "entries"]
    /\ UNCHANGED <<pipeline, loopv, call, fn, tg, more>>

\* one iteration of "for entry in feed.entries[:self.posts_limit]"
RssEntry ==
    /\ rss.pc = "entries"
    /\ rss.n < MaxEntries
    /\ \E e \in Entries(rss.kind, now, rss.lookback) :
          LET created == EntryCreated(rss.kind, e, now)
              wellFormed == created.ok /\ e.link
          IN  rss' = [rss EXCEPT
                        !.n = @ + 1,
                        !.last = e,
                        !.items = EntryStep(rss.kind, @, rss.n + 1, e, now,
                                            rss.lookback),
                        !.expect =
                            IF wellFormed /\ created.t >= Cutoff(now, rss.lookback)
                            THEN Append(@, NewItem(rss.n + 1, rss.kind, created.t))
                            ELSE @]
    /\ UNCHANGED <<pipeline, loopv, call, fn, tg, more>>

\* the feed has no further entry: return items, all_items.extend(items), return
RssReturn ==
    /\ rss.pc = "entries"
    /\ rss' = [rss EXCEPT !.pc = "done"]
    /\ UNCHANGED <<pipeline, loopv, call, fn, tg, more>>

-----------------------------------------------------------------------------
(* fetch of the Telegram adapter *)

\* TelegramSource.fetch: the cutoff, then the loops over groups and channels
TgFetchStart ==
    /\ rss.pc = "idle" /\ tg.pc = "idle"
    /\ \E lookback_hours \in LookbackChoices :
          tg' = [NoTg EXCEPT !.pc = "resolve", !.lookback = lookback_hours,
                             !.ents = TgEntities]
    /\ UNCHANGED <<pipeline, loopv, call, fn, rss, more>>

\* _fetch_entity: entity = await self.client.get_entity(...)
TgResolved ==
    /\ tg.pc = "resolve" /\ tg.ents # <<>>
    /\ tg' = [Called(tg) EXCEPT !.pc = "iter", !.acc = <<>>, !.n = 0]
    /\ UNCHANGED <<pipeline, loopv, call, fn, rss, more>>

\* get_entity raises: "except Exception" in _fetch_entity logs and returns [], for
\* FloodWaitError as for every other exception; fetch goes on after sleep(1)
TgResolveRaise ==
    /\ tg.pc = "resolve" /\ tg.ents # <<>>
    /\ \/ tg' = EntityReturned(Called(tg))
       \/ \E s \in FloodSeconds : tg' = EntityReturned(Flooded(Called(tg), s))
    /\ UNCHANGED <<pipeline, loopv, call, fn, rss, more>>

\* one iteration of "async for message in self.client.iter_messages(...)"; the
\* first one sends the request
TgMessage ==
    /\ tg.pc = "iter"
    /\ tg.n < MaxMessages
    /\ \E msg \in Messages(now, tg.lookback) :
          LET t0 == IF tg.n = 0 THEN Called(tg) ELSE tg
              t1 == [t0 EXCEPT !.n = @ + 1, !.seq = @ + 1, !.last = msg]
              item == NewItem(tg.seq + 1, Head(tg.ents), msg.date)
              \* get_sender / get_messages: "except Exception: pass"
              t2 == IF msg.sender = "none" THEN t1
                    ELSE IF msg.sender = "ok" THEN Called(t1)
                    ELSE Flooded(Called(t1), CHOOSE s \in FloodSeconds : TRUE)
          IN  tg' =
                IF msg.kind = "skip" THEN t1
                ELSE IF msg.kind = "bad"
                THEN EntityRaised(t1, 0)
                ELSE IF BeforeCutoff(msg.date, Cutoff(now, tg.lookback))
                THEN EntityReturned(t1)
                ELSE [t2 EXCEPT !.acc = Append(@, item), !.expect = Append(@, item)]
    /\ UNCHANGED <<pipeline, loopv, call, fn, rss, more>>

\* iter_messages raises FloodWaitError: fetch sleeps e.seconds + 1
TgIterFlood ==
    /\ tg.pc = "iter"
    /\ tg.n < MaxMessages
    /\ \E s \in FloodSeconds :
          tg' = [EntityRaised(Flooded(IF tg.n = 0 THEN Called(tg) ELSE tg, s),
                              s + FloodExtra) EXCEPT !.iterFlood = TRUE]
    /\ UNCHANGED <<pipeline, loopv, call, fn, rss, more>>

\* iter_messages is exhausted: return items
TgIterEnd ==
    /\ tg.pc = "iter"
    /\ tg' = EntityReturned(IF tg.n = 0 THEN Called(tg) ELSE tg)
    /\ UNCHANGED <<pipeline, loopv, call, fn, rss, more>>

\* after the last channel: return all_items
TgReturn ==
    /\ tg.pc = "resolve" /\ tg.ents = <<>>
    /\ tg' = [tg EXCEPT !.pc = "done"]
    /\ UNCHANGED <<pipeline, loopv, call, fn, rss, more>>

-----------------------------------------------------------------------------
(* TelegramOutput: a call of send, and _format_message called twice *)

\* send up to the first attempt: the rate limit read from db, then _format_message,
\* which is outside the try block
TgSendCall ==
    /\ tgOut.pc = "idle" /\ tgOut.f1 = <<>>
    /\ \E a \in FormatArgs, db \in BOOLEAN, count \in 0..MaxPerHour :
          tgOut' =
            IF db /\ count >= MaxPerHour
            THEN [tgOut EXCEPT !.pc = "done", !.args = <<a>>, !.ret = "False"]
            ELSE IF FormatRaises(a)
            THEN [tgOut EXCEPT !.pc = "done", !.args = <<a>>, !.raised = "TypeError"]
            ELSE [tgOut EXCEPT !.pc = "first", !.args = <<a>>,
                               !.text = <<FormatMessage(a, now)>>]
    /\ UNCHANGED <<pipeline, loopv, call, fn, rss, tg, window, trail>>

\* try: bot.send_message(text=message, parse_mode="Markdown"); return True
\* except Exception: every failure goes on to the plain-text attempt
TgSendFirst ==
    /\ tgOut.pc = "first"
    /\ \E o \in Transport :
          tgOut' = IF o = "ok"
                   THEN [tgOut EXCEPT !.pc = "done", !.attempts = @ + 1, !.first = o,
                                      !.ret = "True"]
                   ELSE [tgOut EXCEPT !.pc = "retry", !.attempts = @ + 1, !.first = o]
    /\ UNCHANGED <<pipeline, loopv, call, fn, rss, tg, window, trail>>

\* the inner try: bot.send_message(text=plain_message); return True
\* except Exception: return False
TgSendRetry ==
    /\ tgOut.pc = "retry"
    /\ \E o \in Transport :
          tgOut' = [tgOut EXCEPT !.pc = "done", !.attempts = @ + 1, !.second = o,
                                 !.text = <<PlainMessage(tgOut.text[1])>>,
                                 !.ret = IF o = "ok" THEN "True" ELSE "False"]
    /\ UNCHANGED <<pipeline, loopv, call, fn, rss, tg, window, trail>>

\* _format_message called with any arguments (that join)
FormatFirst ==
    /\ tgOut.pc = "idle" /\ tgOut.f1 = <<>>
    /\ \E a \in FormatArgs :
          /\ ~FormatRaises(a)
          /\ tgOut' = [tgOut EXCEPT !.f1 = <<a, FormatMessage(a, now)>>]
    /\ UNCHANGED <<pipeline, loopv, call, fn, rss, tg, window, trail>>

\* _format_message called a second time, now or later
FormatSecond ==
    /\ tgOut.f1 # <<>> /\ tgOut.f2 = <<>>
    /\ \E a \in FormatArgs :
          /\ ~FormatRaises(a)
          /\ tgOut' = [tgOut EXCEPT !.f2 = <<a, FormatMessage(a, now)>>]
    /\ UNCHANGED <<pipeline, loopv, call, fn, rss, tg, window, trail>>

-----------------------------------------------------------------------------
(* The lookback of the RSS source *)

\* the configuration is loaded: reddit.check_interval_minutes
LoadInterval ==
    /\ window.pc = "idle"
    /\ \E minutes \in 1..MaxIntervalMinutes :
          window' = [window EXCEPT !.pc = "loaded", !.minutes = minutes]
    /\ UNCHANGED <<pipeline, loopv, call, fn, rss, tg, tgOut, trail>>

\* run_once reaches process_source(source, int(lookback_hours)) for RedditSource
OnceLookback ==
    /\ window.pc = "loaded" /\ window.once = 0
    /\ window' = [window EXCEPT !.once = OnceLookbackHours(window.minutes)]
    /\ UNCHANGED <<pipeline, loopv, call, fn, rss, tg, tgOut, trail>>

\* run_forever reaches process_source(source, int(lookback_hours)) for RedditSource
ForeverLookback ==
    /\ window.pc = "loaded" /\ window.forever = 0
    /\ window' = [window EXCEPT !.forever = ForeverLookbackHours(window.minutes)]
    /\ UNCHANGED <<pipeline, loopv, call, fn, rss, tg, tgOut, trail>>

-----------------------------------------------------------------------------
(* Specifications *)

ProcStep(p) ==
    \/ StartOnce(p)
    \/ StartForever(p)
    \/ Fetch(p)
    \/ FetchError(p)
    \/ CheckProcessed(p)
    \/ MarkShort(p)
    \/ Classify(p)
    \/ ClassifyRaise(p)
    \/ MarkClassified(p)
    \/ Send(p)
    \/ MarkNotified(p)
    \/ EndPass(p)
    \/ Cleanup(p)
    \/ Stop(p)

\* one process: its passes follow each other (one asyncio task, awaited in sequence)
Next ==
    \/ Tick
    \/ LongIdle
    \/ ProcStep(1)

Spec == Init /\ [][Next]_vars

\* the steps of a continuously running process
ForeverStep(p) ==
    \/ StartForever(p)
    \/ Fetch(p)
    \/ CheckProcessed(p)
    \/ MarkShort(p)
    \/ Classify(p)
    \/ MarkClassified(p)
    \/ Send(p)
    \/ MarkNotified(p)
    \/ EndPass(p)

\* two processes on the same database file; their steps interleave
NextConc == \E p \in Procs : ForeverStep(p)

SpecConc == Init /\ [][NextConc]_vars

\* one process seen from main: its scheduling loop, its passes as item iterations
NextSched ==
    \/ \E m \in {"once", "forever"} : StartMain(m)
    \/ ConnectSource
    \/ ConnectRaise
    \/ TickTop
    \/ LoopExit
    \/ SkipSource
    \/ PassStart
    \/ PassItem
    \/ PassItemRaise
    \/ PassReturn
    \/ EndSources
    \/ PurgeOnce
    \/ Sleep
    \/ Signal
    \/ Disconnect
    \/ DisconnectRaise
    \/ CloseDb

InitSched == Init /\ rssDated

\* a classifier constructed with any of the configurations, called once
InitClassify ==
    /\ InitRest
    /\ rssDated
    /\ \E cfg \in Configs : call = [NoCall EXCEPT !.cfg = cfg]

NextClassify == ClassifyCall

SpecClassify == InitClassify /\ [][NextClassify]_vars

SpecSched == InitSched /\ [][NextSched]_vars

\* one call of fetch of one of the adapters
NextFetch ==
    \/ RssFetchStart
    \/ RssRequestError
    \/ RssParsed
    \/ RssEntry
    \/ RssReturn
    \/ TgFetchStart
    \/ TgResolved
    \/ TgResolveRaise
    \/ TgMessage
    \/ TgIterFlood
    \/ TgIterEnd
    \/ TgReturn

InitFetch == Init /\ rssDated

SpecFetch == InitFetch /\ [][NextFetch]_vars

\* a classifier constructed with any of the configurations, called once, the
\* verification capability answering with any response
NextVerify == ClassifyResponse

SpecVerify == InitClassify /\ [][NextVerify]_vars

\* the text functions of the classifiers, each called once
NextText ==
    \/ CleanTextCall
    \/ WordMatchCall
    \/ KeywordMatchCall
    \/ DetectCategoryCall
    \/ DetectCategoryEnCall

InitText == Init /\ rssDated

SpecText == InitText /\ [][NextText]_vars

\* one call of TelegramOutput.send, or two calls of _format_message, while time passes
NextSend ==
    \/ Tick
    \/ TgSendCall
    \/ TgSendFirst
    \/ TgSendRetry
    \/ FormatFirst
    \/ FormatSecond

InitSend == Init /\ rssDated

SpecSend == InitSend /\ [][NextSend]_vars

\* the lookback both entry points compute, for every configured interval
NextWindow ==
    \/ LoadInterval
    \/ OnceLookback
    \/ ForeverLookback

InitWindow == Init /\ rssDated

SpecWindow == InitWindow /\ [][NextWindow]_vars

-----------------------------------------------------------------------------
(* The Database class called directly, with any arguments *)

\* argument tuples for mark_processed: the item's own fields without a classification,
\* and a second tuple that differs from the first in every field
ApiArgs(id) ==
    {[source |-> ItemSource(id), group_name |-> ItemChannel(id),
      textLen |-> ItemTextLen(id), url |-> ItemUrl(id), classification |-> Null],
     [source |-> "reddit_comment", group_name |-> "elsewhere",
      textLen |-> PreviewLen + 1, url |-> <<"url", "other">>,
      classification |-> Json([is_relevant |-> TRUE, is_question |-> TRUE])]}

ApiMarkProcessed(id, a) ==
    /\ processed_items' =
          MarkProcessed(processed_items, id, a.source, a.group_name, a.textLen,
                        a.url, a.classification, now)
    /\ lastOp' = [Op("mark_processed", 0, id) EXCEPT
                    !.existed = IsProcessed(processed_items, id),
                    !.cls = a.classification]
    /\ UNCHANGED <<ext, now, rssDated, notification_log, mode, srcIdx, pass, hist>>

\* mark_notified has no check of the UPDATE's row count and no raise statement
ApiMarkNotified(id) ==
    /\ Len(notification_log) < MaxLog
    /\ processed_items' = MarkNotifiedRows(processed_items, id)
    /\ notification_log' = MarkNotifiedLog(notification_log, id, now)
    /\ lastOp' = [Op("mark_notified", 0, id) EXCEPT
                    !.existed = IsProcessed(processed_items, id)]
    /\ UNCHANGED <<ext, now, rssDated, mode, srcIdx, pass, hist>>

\* cleanup_old_records(days)
ApiCleanup(days) ==
    /\ processed_items' = CleanupRows(processed_items, now, days)
    /\ notification_log' = CleanupLog(notification_log, now, days)
    /\ lastOp' = [Op("cleanup", 0, NoItem) EXCEPT !.out = days]
    /\ trail' = AfterPurge(trail, processed_items, notification_log, now, days)
    /\ UNCHANGED <<rest, now, rssDated, mode, srcIdx, pass, hist>>

StoreIds == {"reddit_post_r1", "tg_2_c1"}

\* days: one day, and what run_once passes
RetentionChoices == {1, CleanupDays}

NextStore ==
    \/ Tick
    \/ LongIdle
    \/ \E id \in StoreIds : \E a \in ApiArgs(id) : ApiMarkProcessed(id, a)
    \/ \E id \in StoreIds : ApiMarkNotified(id)
    \/ \E days \in RetentionChoices : ApiCleanup(days)

InitStore == Init /\ rssDated

SpecStore == InitStore /\ [][NextStore]_vars

-----------------------------------------------------------------------------
(* Properties *)

RowOf(i) == {r \in processed_items : r.id = i}

\* C1 as stated: for every item id, over all passes and outputs, notified goes from
\* false to true at most once and at most one send succeeds, ever; and no output is
\* invoked for an item once one has reported sent.
C1_AtMostOneNotificationEver ==
    /\ \A i \in ItemIds : sentTotal[i] <= 1 /\ flipsTotal[i] <= 1
    /\ \A p \in Procs : pc[p] = "send" => sentTotal[Cur(p)] = 0

\* C1 amended: the same, counted over the life of the item's ProcessedRecord (from its
\* insertion until cleanup_old_records deletes it): at most one successful send, at
\* most one false -> true transition of notified, and no output is invoked for the
\* item after one has reported sent.
C1_AtMostOneNotificationPerRecord ==
    /\ \A i \in ItemIds :
          /\ sentLife[i] <= 1
          /\ flipsLife[i] <= sentLife[i]
    /\ \A p \in Procs : pc[p] = "send" => sentLife[Cur(p)] = 0

\* a notified item is fetched again by a later pass and skipped
C1_Witness ==
    /\ lastOp.op = "skip_seen"
    /\ sentLife[lastOp.id] = 1
    /\ flipsLife[lastOp.id] = 1
    /\ \E r \in RowOf(lastOp.id) : r.notified

\* C2: mark_processed is idempotent per id: the table never holds two rows with one id,
\* after a call the id has a row, and a call for an id that already has a row changes
\* neither table, whatever its other arguments are.
C2_MarkProcessedIdempotent ==
    /\ [](\A r1, r2 \in processed_items : r1.id = r2.id => r1 = r2)
    /\ [][lastOp'.op = "mark_processed" =>
            /\ \E r \in processed_items' : r.id = lastOp'.id
            /\ lastOp'.existed =>
                  /\ processed_items' = processed_items
                  /\ notification_log' = notification_log]_vars

\* a second call, carrying another classification, met a row that is already notified
C2_Witness ==
    /\ lastOp.op = "mark_processed"
    /\ lastOp.existed
    /\ \E r \in RowOf(lastOp.id) :
          /\ r.notified
          /\ r.classification # lastOp.cls
          /\ r.source = ItemSource(lastOp.id)

\* C3: with a ceiling of N per hour, send returns False whenever N or more log entries
\* were sent within the last hour, and at no time do more than N entries lie within
\* one hour.
C3_RateCeiling ==
    /\ TrueCountLastHour(notification_log, now) <= MaxPerHour
    /\ (lastOp.op = "send" /\ lastOp.trueCount >= MaxPerHour)
          => lastOp.ret = "rate_limited"

\* the actionability rule as the claim words it
ClaimedActionable(c, source) ==
    c.is_relevant /\ (c.is_question \/ source = "telegram_channel")

\* C4: a send is attempted for a classified item iff is_relevant and (is_question or
\* the source is telegram_channel); for every other classified item no output is
\* invoked and notified stays false.
C4_SendIffActionable ==
    /\ \A p \in Procs :
          pc[p] \in {"send", "notify"} => ClaimedActionable(result[p], ItemSource(Cur(p)))
    /\ (lastOp.op = "mark_processed" /\ lastOp.cls # Null)
          => (pc[lastOp.proc] = "send"
                <=> ClaimedActionable(lastOp.cls[1], ItemSource(lastOp.id)))
    /\ \A r \in processed_items :
          (r.classification # Null /\ ~ClaimedActionable(r.classification[1], r.source))
             => ~r.notified

\* a relevant channel item that is no question has just been recorded and goes to send
C4_Witness ==
    /\ lastOp.op = "mark_processed"
    /\ lastOp.cls # Null
    /\ ItemSource(lastOp.id) = "telegram_channel"
    /\ lastOp.cls[1].is_relevant /\ ~lastOp.cls[1].is_question
    /\ pc[lastOp.proc] = "send"

\* C5: when two interleaving passes observe the same unseen id, at most one
\* ProcessedRecord is created and at most one notification is sent for it.
C5_ConcurrentAtMostOnce ==
    /\ \A r1, r2 \in processed_items : r1.id = r2.id => r1 = r2
    /\ \A i \in ItemIds : sentLife[i] <= 1

\* C6: mark_notified for an id without a ProcessedRecord fails with a not-found error
\* and changes neither table.
C6_MarkNotifiedNotFound ==
    [][(lastOp'.op = "mark_notified" /\ ~lastOp'.existed) =>
          /\ lastOp'.raised = "NotFoundError"
          /\ processed_items' = processed_items
          /\ notification_log' = notification_log]_vars

NoPassHandles(i) ==
    \A p \in Procs : pc[p] \in {"mark_short", "classify", "mark", "send", "notify"}
                        => Cur(p) # i

\* C7 as stated: an item whose dispatch was rate-limited or failed on every output
\* stays in the store with notified = false, and no later pass handles it again.
C7_UndeliveredStaysForever ==
    \A i \in undeliveredEver :
        /\ \E r \in RowOf(i) : ~r.notified
        /\ NoPassHandles(i)

\* C7 amended: such an item stays in the store with notified = false until
\* cleanup_old_records deletes its row, and as long as the row exists no later pass
\* classifies or sends it again.
C7_UndeliveredStaysUntilPurged ==
    \A i \in undelivered :
        /\ \E r \in RowOf(i) : ~r.notified
        /\ NoPassHandles(i)

\* an undelivered item is fetched again while the rate limit would let a send through
C7_Witness ==
    /\ lastOp.op = "skip_seen"
    /\ lastOp.id \in undelivered
    /\ ~RateLimited(notification_log, now, MaxPerHour)
    /\ TrueCountLastHour(notification_log, now) < MaxPerHour

\* C8: every fetched item that is not yet in the store has a ProcessedRecord once its
\* pass is done with it, also when classification fails, and the record is there
\* before a send for it is attempted.
C8_EveryUnseenItemRecorded ==
    /\ \A p \in Procs :
          /\ pc[p] \in {"send", "notify"} => IsProcessed(processed_items, Cur(p))
          /\ \A k \in 1..Len(items[p]) :
                k < idx[p] => IsProcessed(processed_items, items[p][k])
    /\ lastOp.op = "classify_raised" => IsProcessed(processed_items, lastOp.id)

\* C9: get_notifications_count_last_hour returns the number of log entries sent later
\* than now minus one hour.
C9_CountMatchesWindow ==
    GetNotificationsCountLastHour(notification_log, now)
        = TrueCountLastHour(notification_log, now)

\* C10: once fewer than N log entries lie within the last hour, the next send is not
\* skipped by the rate limit.
C10_CapacityReleased ==
    (lastOp.op = "send" /\ lastOp.trueCount < MaxPerHour) => lastOp.ret # "rate_limited"

\* the log holds N or more entries, all older than one hour, and the send went out
C10_Witness ==
    /\ lastOp.op = "send"
    /\ lastOp.ret \in {"sent", "sent_plain"}
    /\ Len(notification_log) >= MaxPerHour
    /\ lastOp.trueCount < MaxPerHour
    /\ TrueCountLastHour(notification_log, now) = 0

-----------------------------------------------------------------------------
(* Properties of the scheduling loop *)

InLoop == loopPc \in {"tick", "sources", "in_pass", "sleep"}

\* a tick of run_forever has walked self.sources and is about to sleep
TickOver == runMode = "forever" /\ loopPc = "sleep"

\* C11: run_forever survives an exception raised inside a source pass: no such
\* exception leaves run_forever, the loop goes on until stop() is called, and in
\* every later tick in which no pass raises every source that is due is run.
C11_LoopSurvivesPassException ==
    /\ runMode = "forever" => escaped # "PassError"
    /\ (runMode = "forever" /\ cyc.caught /\ running) => InLoop
    /\ (TickOver /\ cyc.caught /\ cyc.failed = {}) => cyc.due \subseteq cyc.started

\* after an exception was caught, a later tick has run every configured source
C11_Witness ==
    /\ TickOver
    /\ cyc.caught
    /\ cyc.failed = {}
    /\ cyc.started = Sources
    /\ running

\* C12: within one cycle (run_once, or one tick of run_forever) a failure of one
\* source, in connect, fetch, classification or dispatch, does not keep the other
\* sources of that cycle from being fetched and processed.
C12_FailureIsolated ==
    /\ TickOver => (cyc.due \ cyc.failed) \subseteq cyc.started
    /\ (runMode = "once" /\ loopPc \in {"finally", "exited"})
          => (Sources \ cyc.failed) \subseteq cyc.started

\* C13: in run_forever a pass is started for a source exactly when the time since its
\* last recorded run has reached its interval: a source is never run twice less than
\* one interval apart, and the sources run in a tick are the sources due in it.
C13_RunExactlyWhenDue ==
    /\ cyc.early = {}
    /\ cyc.started \subseteq cyc.due \/ runMode # "forever"
    /\ TickOver => cyc.started = cyc.due

\* C14: the purge of old records runs exactly once per cycle, after the sources, in
\* run_once and in every cycle of run_forever.
C14_PurgeOncePerCycle ==
    /\ cyc.purges <= 1
    /\ cyc.purges = 1 => loopPc \in {"finally", "exited"}
    /\ (runMode = "once" /\ loopPc = "finally" /\ escaped = "none") => cyc.purges = 1
    /\ TickOver => cyc.purges = 1

\* C15: after a shutdown signal that arrives while run_forever handles an item, that
\* item is completed, no further item is handled and no further pass is started, the
\* loop exits, and cleanup leaves no source connected and the store closed.
C15_ShutdownAfterCurrentItem ==
    (runMode = "forever" /\ sig.arrived /\ sig.inPass) =>
        /\ sig.handledAfter <= 1
        /\ sig.startedAfter = 0
        /\ loopPc = "exited" => (connected = {} /\ ~dbOpen)

-----------------------------------------------------------------------------
(* Properties of the classifiers *)

KeywordFirst == call.done /\ call.route = "en"

VerifyFirst == call.done /\ call.route = "cyrillic"

\* the verification call cannot give a result: no credential, or the call fails
VerificationFails ==
    \/ ~KeyConfigured(call.cfg.anthropic_api_key)
    \/ call.ai.kind # "ok"

\* C16: classify routes by the declared language only: ru, uk, ru/uk and uk/ru go to
\* the verify-first strategy, every other value to the keyword-first strategy,
\* whatever the text is.
C16_RoutesByDeclaredLanguage ==
    call.done =>
        /\ call.route = IF call.lang \in {"ru", "uk", "ru/uk", "uk/ru"}
                        THEN "cyrillic" ELSE "en"
        /\ call.out = IF call.lang \in {"ru", "uk", "ru/uk", "uk/ru"}
                      THEN CyrillicClassify(call.text, call.lang, call.cfg, call.ai)
                      ELSE EnglishClassify(call.text, call.cfg, call.ai)
        /\ call.out.res.method = "ai" => call.lang \in {"ru", "uk", "ru/uk", "uk/ru"}
        /\ call.out.res.method = "hybrid" => call.lang \notin {"ru", "uk", "ru/uk", "uk/ru"}

\* a text in upper case declared as "RU" went to the keyword-first strategy and was
\* verified there
C16_Witness ==
    /\ call.done
    /\ call.lang = "RU"
    /\ Contains(<<"I">>, call.text)
    /\ call.route = "en"
    /\ call.out.res.method = "hybrid"

\* C17: for a keyword-first item the verification capability is invoked only if the
\* pre-filter marked the item relevant; otherwise the pre-filter result is returned
\* and no verification call is made.
C17_VerifyOnlyIfPrefilterRelevant ==
    KeywordFirst =>
        /\ (call.out.aiCalled \/ call.out.api) => call.out.pre.is_relevant
        /\ ~call.out.pre.is_relevant =>
              /\ call.out.kind = "result"
              /\ call.out.res = call.out.pre
              /\ call.out.res = ClassifyKeywords(call.text, call.cfg)

\* the pre-filter said not relevant although a credential is configured and the
\* verification capability would have said relevant
C17_Witness ==
    /\ KeywordFirst
    /\ ~call.out.pre.is_relevant
    /\ KeyConfigured(call.cfg.anthropic_api_key)
    /\ call.ai.kind = "ok" /\ call.ai.is_relevant
    /\ ~call.out.res.is_relevant

\* C18: for a keyword-first item that the pre-filter marked relevant, the result is
\* exactly the pre-filter result with method 'keywords' if the verification call
\* fails or is unavailable, and the verified result with method 'hybrid' if it
\* succeeds.
C18_FallbackToPrefilter ==
    (KeywordFirst /\ call.out.pre.is_relevant) =>
        IF VerificationFails
        THEN /\ call.out.kind = "result"
             /\ call.out.res = call.out.pre
             /\ call.out.res.method = "keywords"
        ELSE /\ call.out.kind = "result"
             /\ call.out.res = [AiResult(call.ai) EXCEPT !.method = "hybrid"]

\* C19: for a verify-first item the verification capability is attempted whatever
\* the keywords say; the keyword heuristic is used only when the call fails or no
\* credential is configured; a successful verification result is returned unchanged
\* with method 'ai'.
C19_VerifyFirstUnconditional ==
    VerifyFirst =>
        /\ call.out.aiCalled
        /\ (KeyConfigured(call.cfg.anthropic_api_key) /\ call.ai.kind # "no_client")
              => call.out.api
        /\ call.out.kwUsed => VerificationFails
        /\ (call.out.kind = "result" /\ call.out.res.method = "keywords")
              => call.out.kwUsed
        /\ ~VerificationFails =>
              /\ call.out.kind = "result"
              /\ call.out.res = [AiResult(call.ai) EXCEPT !.method = "ai"]

\* the verification said relevant for a text in which no keyword matches
C19_Witness ==
    /\ VerifyFirst
    /\ ~VerificationFails
    /\ CyrillicKeywordMatches(call.text, call.lang) = 0
    /\ ~CyrillicFallback(call.text, call.lang).is_relevant
    /\ call.out.res.is_relevant
    /\ call.out.res.method = "ai"

\* the number of configured keywords that match the text, as the claim counts them:
\* every entry of the configured list counts
ClaimedMatchCount ==
    Cardinality({k \in DOMAIN call.cfg.en_keywords :
                    KeywordMatch(Lower(call.cfg.en_keywords[k]), Lower(call.text))})

\* C20: when no credential for the verification is configured, the keyword-first
\* classifier returns is_relevant = true iff the number of configured keywords that
\* match the text is at least min_keyword_matches.
C20_RelevantIffEnoughMatches ==
    (KeywordFirst /\ ~KeyConfigured(call.cfg.anthropic_api_key)) =>
        /\ call.out.kind = "result"
        /\ call.out.res.is_relevant
              <=> ClaimedMatchCount >= call.cfg.min_keyword_matches

\* one match where two are required: not relevant
C20_Witness ==
    /\ KeywordFirst
    /\ ~KeyConfigured(call.cfg.anthropic_api_key)
    /\ call.cfg.min_keyword_matches = 2
    /\ ClaimedMatchCount = 1
    /\ ~call.out.res.is_relevant

\* kw stands in s as a whole word: no word character next to it on either side
WholeWordIn(kw, s) ==
    \E k \in 1..(Len(s) + 1) :
        /\ OccursAt(kw, s, k)
        /\ k - 1 \in DOMAIN s => ~IsWordChar(s[k - 1])
        /\ k + Len(kw) \in DOMAIN s => ~IsWordChar(s[k + Len(kw)])

\* the keywords the claim counts for a declared language
ClaimedCyrillicKeywords ==
    IF call.lang \in {"uk", "uk/ru", "ru/uk"} THEN RuKeywords \o UkKeywords
    ELSE RuKeywords

-----------------------------------------------------------------------------
(* Properties of the text functions *)

\* punctuation as the claims use the word: every character that is neither a
\* letter, a digit nor white space
IsPunctuation(c) == c \in {"?", "_"}

\* C22: _word_match(marker, cleaned_text) is true iff the marker stands in the text
\* with a non-word character or the end of the text on both sides, never when it is
\* only a part of a larger token; _clean_text lowercases the text and replaces every
\* punctuation character by one space, so that only white space separates tokens.
C22_WholeWordOverCleanText ==
    /\ fn.op = "word_match" => (fn.ret <=> WholeWordIn(fn.marker, fn.arg))
    /\ fn.op = "clean_text" =>
          /\ Len(fn.arg) = Len(fn.text)
          /\ \A k \in DOMAIN fn.text :
                fn.arg[k] = IF IsPunctuation(fn.text[k]) THEN " "
                            ELSE LowerChar(fn.text[k])

\* the allowlist as the claim gives it
ClaimedAllowlist ==
    {Ice, <<"e", "a", "d">>, Tps, <<"c", "b", "p">>, <<"i", "-", "9", "4">>, Eb1,
     <<"e", "b", "2">>, <<"o", "1">>, <<"o", "-", "1">>, <<"d", "a", "c", "a">>,
     <<"n", "i", "w">>}

\* C23: in the English pre-filter a keyword of the short-keyword allowlist matches
\* only at word boundaries, never inside a longer word; every other keyword matches
\* by substring containment in the lowercased text.
C23_AllowlistWholeWordElseSubstring ==
    fn.op = "keyword_match" =>
        IF fn.marker \in ClaimedAllowlist
        THEN fn.ret <=> WholeWordIn(fn.marker, Lower(fn.text))
        ELSE fn.ret <=> Contains(fn.marker, Lower(fn.text))

\* an allowlisted keyword that stands in the text only inside a longer word
C23_Witness ==
    /\ fn.op = "keyword_match"
    /\ fn.marker \in ClaimedAllowlist
    /\ Contains(fn.marker, Lower(fn.text))
    /\ ~fn.ret

\* the priority order as the claim gives it
ClaimedOrder ==
    <<"asylum", "deportation", "green_card", "visa", "work", "family", "citizenship",
      "tps">>

\* the k-th category of the claimed order has a marker that matches the text of the
\* call, by the matching rule of the detector that was called
HasMatchingMarker(k) ==
    IF fn.op = "detect_category"
    THEN \E j \in DOMAIN CATEGORY_MARKERS(ClaimedOrder[k]) :
            WordMatch(CleanText(CATEGORY_MARKERS(ClaimedOrder[k])[j]), fn.arg)
    ELSE \E j \in DOMAIN categories(ClaimedOrder[k]) :
            KeywordMatch(Lower(categories(ClaimedOrder[k])[j]), fn.arg)

\* C24: category detection returns the first category, in the order asylum,
\* deportation, green_card, visa, work, family, citizenship, tps, that has a matching
\* marker, and 'other' if none has; with markers of two categories in the text the
\* earlier category wins wherever the markers stand.
C24_FirstCategoryInFixedOrder ==
    fn.op \in {"detect_category", "detect_category_en"} =>
        /\ fn.cat = "other" <=> \A k \in DOMAIN ClaimedOrder : ~HasMatchingMarker(k)
        /\ \A k \in DOMAIN ClaimedOrder :
              (HasMatchingMarker(k) /\ \A h \in 1..(k - 1) : ~HasMatchingMarker(h))
                  => fn.cat = ClaimedOrder[k]

\* a tps marker stands in the text before a deportation marker: deportation
C24_Witness ==
    /\ fn.op = "detect_category"
    /\ fn.text = Tps \o <<" ">> \o Ice
    /\ fn.cat = "deportation"

\* C25: category detection is one shared function with whole-word semantics: the
\* category of the keyword-first (English) path equals the category the shared
\* detector returns for the lowercased, punctuation-stripped text, so a marker that
\* stands only inside a longer word never determines the category.
C25_EnglishCategoryIsSharedCategory ==
    fn.op = "detect_category_en" => fn.cat = DetectCategory(CleanText(fn.text))

-----------------------------------------------------------------------------
(* Properties of the verification response handling *)

\* C26: every ClassificationResult that Classifier.classify returns, on every path
\* and for every response of the verification capability, has a category and an
\* urgency that are not null.
C26_CategoryAndUrgencyNeverNull ==
    (call.done /\ call.out.kind = "result") =>
        /\ call.out.res.category # JsonNull
        /\ call.out.res.urgency # JsonNull

\* the enumerations of the response structure
ClaimedCategories ==
    {"visa", "asylum", "deportation", "green_card", "work", "family", "citizenship",
     "tps", "other"}

ClaimedUrgencies == {"high", "medium", "low"}

\* the response has the expected structure
Conforms(ai) ==
    /\ ai.kind = "ok"
    /\ ai.category \in ClaimedCategories
    /\ ai.urgency \in ClaimedUrgencies

\* the result of the keyword strategy for the item of the call
KeywordStrategyResult ==
    IF call.route = "cyrillic" THEN CyrillicFallback(call.text, call.lang)
    ELSE ClassifyKeywords(call.text, call.cfg)

\* C27: a verification response that does not conform to the expected structure (no
\* JSON, no object, missing fields, fields of a wrong type or outside the
\* enumerations) is treated like a failed call: classify returns the result of the
\* keyword strategy and never raises.
C27_MalformedResponseFallsBack ==
    (call.done /\ call.out.api /\ ~Conforms(call.ai)) =>
        /\ call.out.kind = "result"
        /\ call.out.res = KeywordStrategyResult

-----------------------------------------------------------------------------
(* Properties of the source adapters *)

\* the list the fetch of the call returned
Returned == IF rss.pc = "done" THEN rss.items ELSE tg.all

FetchDone == rss.pc = "done" \/ tg.pc = "done"

FetchLookback == IF rss.pc = "done" THEN rss.lookback ELSE tg.lookback

\* C28: every item that fetch(lookback_hours) of a source adapter returns has a
\* creation time not older than now minus lookback_hours.
C28_ReturnedItemsInsideLookback ==
    FetchDone =>
        \A k \in DOMAIN Returned :
            Returned[k].created_at >= now - FetchLookback * Hour

\* the feed held an entry dated before the cutoff after an entry inside the window:
\* only the latter is returned
C28_Witness ==
    /\ rss.pc = "done"
    /\ rss.n = 2
    /\ rss.last.published.has = "time"
    /\ rss.last.published.t < now - rss.lookback * Hour
    /\ rss.last.link
    /\ Len(rss.items) = 1

\* C29: after a throttling signal with a wait duration, received at any point of
\* fetching a group or channel (entity resolution or message iteration), the
\* Telegram adapter issues no further call to Telegram before it has slept at least
\* that duration.
C29_SleepsBeforeNextCall == ~tg.early

\* C30: a failure while parsing or building one item does not abort the fetch: the
\* item is skipped and every other well-formed item of the same feed, group or
\* channel inside the lookback window is returned, by the RSS adapters and by the
\* Telegram adapter.
C30_OtherItemsStillReturned ==
    /\ rss.pc = "done" => rss.items = rss.expect
    /\ (tg.pc = "done" /\ ~tg.iterFlood) =>
          \A k \in DOMAIN tg.expect : \E j \in DOMAIN tg.all : tg.all[j] = tg.expect[k]

-----------------------------------------------------------------------------
(* Properties of TelegramOutput *)

\* failures of an attempt that come from the formatting of the text
FormattingFailures == {"bad_request"}

\* C31: send never raises on a transport failure; after a formatting-related failure
\* of the rich-format attempt it makes exactly one more attempt, in plain text; after
\* any other failure it makes no second attempt and returns False; it returns True only
\* if an attempt succeeded; it never makes more than two attempts.
C31_RetryOnlyAfterFormattingFailure ==
    /\ tgOut.attempts <= 2
    /\ tgOut.attempts >= 1 => tgOut.raised = "none"
    /\ tgOut.ret = "True" => "ok" \in {tgOut.first, tgOut.second}
    /\ (tgOut.pc = "done" /\ tgOut.first \in FormattingFailures)
          => /\ tgOut.attempts = 2
             /\ ~tgOut.text[1].markup
    /\ (tgOut.first \notin FormattingFailures \cup {"none", "ok"})
          => /\ tgOut.pc = "done"
             /\ tgOut.attempts = 1
             /\ tgOut.ret = "False"

\* C32: two calls of _format_message with the same item, category, urgency, summary
\* and draft response return the same text, whenever they are made.
C32_FormatIsPure ==
    (tgOut.f2 # <<>> /\ tgOut.f1[1] = tgOut.f2[1]) => tgOut.f1[2] = tgOut.f2[2]

-----------------------------------------------------------------------------
(* Properties of the lookback window *)

MinutesPerHour == 60

\* C38: for every configured poll interval of the feed-based source, the lookback
\* handed to its fetch is at least one hour and at least four times the poll interval,
\* in run_once and in run_forever.
C38_LookbackCoversFourIntervals ==
    /\ window.once # 0 =>
          /\ window.once >= 1
          /\ window.once * MinutesPerHour >= 4 * window.minutes
    /\ window.forever # 0 =>
          /\ window.forever >= 1
          /\ window.forever * MinutesPerHour >= 4 * window.minutes

-----------------------------------------------------------------------------
(* Properties of the dispatch and of the order of the steps of a pass *)

NotifiedIds(rows) == {r.id : r \in {x \in rows : x.notified}}

\* C33: a call of TelegramOutput.send leaves both tables as they are, on every path
\* (rate-limited, sent, failed, raised); the notified flag is set and a log entry is
\* appended only by the mark_notified call of a pass whose send has returned True.
C33_SendLeavesStoreUnchanged ==
    [][/\ lastOp'.op = "send" =>
             /\ processed_items' = processed_items
             /\ notification_log' = notification_log
       /\ (\/ NotifiedIds(processed_items') \ NotifiedIds(processed_items) # {}
           \/ Len(notification_log') > Len(notification_log))
             => /\ lastOp'.op = "mark_notified"
                /\ pc[lastOp'.proc] = "notify"
                /\ lastOp.op = "send" => lastOp.ret \in {"sent", "sent_plain"}
                /\ sentLife[lastOp'.id] >= 1]_vars

\* a send was refused by the rate limit while the log holds an entry
C33_Witness ==
    /\ lastOp.op = "send"
    /\ lastOp.ret = "rate_limited"
    /\ notification_log # <<>>
    /\ NotifiedIds(processed_items) # {}

\* the length test as the claim words it
ClaimedShort(i) == ItemTextLen(i) < MinTextLength

\* C36: an unseen item whose text is shorter than the minimum length is recorded with
\* an absent classification; the classifier is never invoked for it and no output is
\* ever invoked for it, in that pass or in a later one.
C36_ShortItemNeverClassified ==
    /\ \A p \in Procs :
          pc[p] \in {"classify", "mark", "send", "notify"} => ~ClaimedShort(Cur(p))
    /\ \A i \in ItemIds :
          ClaimedShort(i) =>
             /\ sentTotal[i] = 0
             /\ i \notin undeliveredEver
    /\ \A r \in processed_items :
          ClaimedShort(r.id) => r.classification = Null /\ ~r.notified
    /\ lastOp.op \in {"send", "classify_raised", "mark_notified"}
          => ~ClaimedShort(lastOp.id)
    /\ (lastOp.op = "mark_processed" /\ ClaimedShort(lastOp.id))
          => /\ lastOp.cls = Null
             /\ \E r \in RowOf(lastOp.id) : r.classification = Null

\* a later pass fetches the short item again and skips it: its row has no
\* classification, while another item of the same source was classified and notified
C36_Witness ==
    /\ lastOp.op = "skip_seen"
    /\ ClaimedShort(lastOp.id)
    /\ \E r \in RowOf(lastOp.id) : r.classification = Null /\ ~r.notified
    /\ \E r \in processed_items : r.id # lastOp.id /\ r.source # "reddit_post" /\ r.notified

\* C37: as long as no purge removes its record, the classifier is invoked at most once
\* per item id, and never for an id that has a ProcessedRecord: a step that calls
\* classify does so for an id that has no record and that is not the id of the call
\* before it, when that call raised.
C37_ClassifiedAtMostOnce ==
    [][\A p \in Procs :
          (pc[p] = "classify" /\ pc'[p] # "classify")
             => /\ ~IsProcessed(processed_items, Cur(p))
                /\ Cur(p) # trail.raised]_vars

LogCount(log, i) == Cardinality({k \in DOMAIN log : log[k].item_id = i})

\* C39: before any purge, a ProcessedRecord has notified = true iff the log holds
\* exactly one entry for its id, every log entry refers to an existing record, and
\* mark_notified is called only for an id that has a record, written before the send.
C39_NotifiedIffOneLogEntry ==
    ~trail.purged =>
        /\ \A r \in processed_items :
              r.notified <=> LogCount(notification_log, r.id) = 1
        /\ \A k \in DOMAIN notification_log :
              IsProcessed(processed_items, notification_log[k].item_id)
        /\ \A p \in Procs :
              pc[p] \in {"send", "notify"} => IsProcessed(processed_items, Cur(p))
        /\ lastOp.op = "mark_notified" => lastOp.existed

\* two items are notified, each with its one log entry, and a third row is not
C39_Witness ==
    /\ ~trail.purged
    /\ lastOp.op = "mark_notified"
    /\ Len(notification_log) = 2
    /\ Cardinality(NotifiedIds(processed_items)) = 2
    /\ \E r \in processed_items : ~r.notified

-----------------------------------------------------------------------------
(* Properties of the scheduling of the sources *)

\* a pass of src begins
PassStartOf(src) == PassStart /\ SourceNames[srcPos] = src

\* C34: while the pass of one source is waiting (on its fetch, a verification call or
\* a send), a pass of another source whose interval has elapsed can start.
C34_OtherSourceCanStart ==
    (runMode = "forever" /\ loopPc = "in_pass") =>
        \A src \in Sources \ {SourceNames[srcPos]} :
            Due(src, loopNow, last_run) => ENABLED PassStartOf(src)

-----------------------------------------------------------------------------
(* Properties of the purge *)

\* C35: cleanup_old_records(days) deletes exactly the ProcessedRecords whose
\* processed-at time and the log entries whose sent-at time is older than now minus
\* days; every row that is not older stays as it is, also one written on the calendar
\* day of the cutoff after the cutoff instant.
C35_CleanupDeletesExactlyOlder ==
    [][lastOp'.op = "cleanup" =>
          LET cutoff == now - lastOp'.out * Day
              Keep(e) == ParseTime(e.sent_at) >= cutoff
          IN  /\ processed_items' =
                    {r \in processed_items : ParseTime(r.processed_at) >= cutoff}
              /\ notification_log' = SelectSeq(notification_log, Keep)]_vars
====
